---- MODULE Spec2Model ----
(***************************************************************************)
(* The template store of vscode-containerlab (TemplateManager): the        *)
(* in-memory catalog, the storage root on disk and the store operations,   *)
(* each executed to completion before the next one starts (the serialized  *)
(* use the interactive surface makes of the store) and, in SpecOverlap,    *)
(* split at its awaits so that calls overlap; and the templates panel of   *)
(* the topology viewer (ManagerTemplatesPanel), which turns a dropped      *)
(* template into nodes and edges of the graph.  The last part is the       *)
(* cache of docker images (DockerImageProvider) and the tree that shows it *)
(* (DockerImagesTreeDataProvider).                                         *)
(*                                                                         *)
(* Strings the code computes with (names, ids) are sequences of            *)
(* one-character strings, so that generateTemplateId is computed as the    *)
(* code computes it.  A descriptor is a function from its field names to   *)
(* values: `'kind' in t` is "kind" \in DOMAIN t.                           *)
(***************************************************************************)
EXTENDS Integers, Sequences, FiniteSets, TLC

VARIABLES templates, disk, ext, last, nops, cy, drop, calls, docker

vars == <<templates, disk, ext, last, nops, cy, drop, calls, docker>>

\* The state of the store, and that of the panel of the topology viewer.
store == <<templates, disk, ext, last, nops, calls>>

engine == <<cy, drop>>

----------------------------------------------------------------------------
(* Bounds of the model.                                                    *)

\* Number of store operations in one behaviour.
MaxOps == 3

\* Number of store operations in one behaviour on a failing file system.
MaxFaultOps == 2

----------------------------------------------------------------------------
(* Characters and strings.                                                 *)

UpperChars == <<"A","B","C","D","E","F","G","H","I","J","K","L","M",
                "N","O","P","Q","R","S","T","U","V","W","X","Y","Z">>

LowerChars == <<"a","b","c","d","e","f","g","h","i","j","k","l","m",
                "n","o","p","q","r","s","t","u","v","w","x","y","z">>

DigitChars == <<"0","1","2","3","4","5","6","7","8","9">>

\* The character class [a-z0-9] of the regular expressions.
AlnumClass == {LowerChars[i] : i \in 1..26} \cup {DigitChars[i] : i \in 1..10}

\* One character of String.prototype.toLowerCase.
LowerChar(c) ==
    IF \E i \in 1..26 : UpperChars[i] = c
    THEN LowerChars[CHOOSE i \in 1..26 : UpperChars[i] = c]
    ELSE c

toLowerCase(s) == [i \in 1..Len(s) |-> LowerChar(s[i])]

\* s.replace(/[^a-z0-9]+/g, '-') from position i on: the regular expression
\* matches greedily, so one match takes the whole run that starts at i.
RECURSIVE ReplaceRunsFrom(_, _)
ReplaceRunsFrom(s, i) ==
    IF i > Len(s) THEN <<>>
    ELSE IF s[i] \in AlnumClass THEN <<s[i]>> \o ReplaceRunsFrom(s, i + 1)
    ELSE LET stop == CHOOSE j \in i..Len(s) :
                        /\ \A k \in i..j : s[k] \notin AlnumClass
                        /\ (j = Len(s) \/ s[j + 1] \in AlnumClass)
         IN  <<"-">> \o ReplaceRunsFrom(s, stop + 1)

\* A mistaken variant: the pattern without '+', every character replaced on
\* its own.
ReplaceEachChar(s) ==
    [i \in 1..Len(s) |-> IF s[i] \in AlnumClass THEN s[i] ELSE "-"]

ReplaceRuns(s) == ReplaceRunsFrom(s, 1)

\* `${counter}`: the decimal digits of a natural number.
RECURSIVE ToDecimal(_)
ToDecimal(n) ==
    IF n < 10 THEN <<DigitChars[n + 1]>>
    ELSE ToDecimal(n \div 10) \o <<DigitChars[(n % 10) + 1]>>

\* name.toLowerCase().replace(/[^a-z0-9]+/g, '-')
baseId(name) == ReplaceRuns(toLowerCase(name))

\* The while loop of generateTemplateId: id is the candidate, counter the next
\* suffix to try, keys the keys of this.templates.
RECURSIVE GenerateLoop(_, _, _, _)
GenerateLoop(base, id, counter, keys) ==
    IF id \in keys
    THEN GenerateLoop(base, base \o <<"-">> \o ToDecimal(counter), counter + 1, keys)
    ELSE id

\* A mistaken variant: the suffix is tried once, without checking it.
GenerateOnce(name, keys) ==
    IF baseId(name) \in keys THEN baseId(name) \o <<"-">> \o ToDecimal(1)
    ELSE baseId(name)

generateTemplateId(name, keys) == GenerateLoop(baseId(name), baseId(name), 1, keys)

----------------------------------------------------------------------------
(* Descriptors.                                                            *)

EmptyFn == [f \in {} |-> ""]

\* The value of a property that is present and undefined (an input box that
\* was dismissed gives description: undefined).
Undefined == "undefined"

isNodeTemplate(t) == "kind" \in DOMAIN t

isStackTemplate(t) == "topology" \in DOMAIN t

\* { ...a, ...b }
Spread(a, b) ==
    [f \in DOMAIN a \cup DOMAIN b |-> IF f \in DOMAIN b THEN b[f] ELSE a[f]]

\* const { id, ...templateData } = template
Rest(t, f) == [g \in DOMAIN t \ {f} |-> t[g]]

\* The optional properties whose value is a string.
StringFields == {"description", "startupConfig", "vendor"}

IsUndefined(t, f) == f \in StringFields /\ f \in DOMAIN t /\ t[f] = Undefined

\* The properties of t that hold a value (yaml.stringify leaves out the
\* undefined ones).
Defined(t) == [g \in {h \in DOMAIN t : ~IsUndefined(t, h)} |-> t[g]]

\* if (t.f): for a string, present, defined and not empty; an object is
\* truthy whenever it is present.
Truthy(t, f) ==
    /\ f \in DOMAIN t
    /\ f \in StringFields => (t[f] # Undefined /\ t[f] # "")

----------------------------------------------------------------------------
(* Files.                                                                  *)

DescriptorFile == "template.yaml"

PlaceholderBody == "# Startup configuration\n"

CorruptBody == "{{ not yaml"

\* A file's content: the YAML text of a mapping (tag "yaml", the mapping in
\* doc) or any other text (tag "text", the text in body).
YamlText(d) == [tag |-> "yaml", doc |-> d, body |-> ""]

PlainText(b) == [tag |-> "text", doc |-> EmptyFn, body |-> b]

\* yaml.stringify(data) of a mapping.
stringify(d) == YamlText(Defined(d))

\* yaml.parse(content): "map" with the mapping, "null" for a document without
\* a mapping (empty, a comment), "throws" for text that is not YAML.
parse(c) ==
    IF c.tag = "yaml" THEN [res |-> "map", doc |-> c.doc]
    ELSE IF c.body = CorruptBody THEN [res |-> "throws", doc |-> EmptyFn]
    ELSE [res |-> "null", doc |-> EmptyFn]

\* An entry of the storage root: a directory with its files, or a plain file.
Dir(files) == [isDir |-> TRUE, files |-> files]

PlainFile == [isDir |-> FALSE, files |-> EmptyFn]

\* f with x set to v (Map.set, writeFile).
Put(f, x, v) == [y \in DOMAIN f \cup {x} |-> IF y = x THEN v ELSE f[y]]

\* f without x (Map.delete).
Drop(f, x) == [y \in DOMAIN f \ {x} |-> f[y]]

----------------------------------------------------------------------------
(* The inputs of the model.                                                *)

NameSRLinux == <<"S","R"," ","L","i","n","u","x">>

NameSrSnake == <<"s","r","_","_","l","i","n","u","x">>

NameSRLinux1 == <<"S","R"," ","L","i","n","u","x"," ","1">>

NameLab == <<"L","a","b","!">>

IdSrLinux == <<"s","r","-","l","i","n","u","x">>

IdSrLinux1 == <<"s","r","-","l","i","n","u","x","-","1">>

IdLab == <<"l","a","b","-">>

IdNotes == <<"n","o","t","e","s",".","t","x","t">>

\* An id no template ever gets.
UnknownId == <<"n","o","p","e">>

\* Descriptors handed to createNodeTemplate (Omit<NodeTemplate, 'id'>).
NodeInputs ==
    { [name |-> NameSRLinux, kind |-> "nokia_srlinux", description |-> Undefined],
      [name |-> NameSrSnake, kind |-> "linux", startupConfig |-> "startup.cfg"],
      [name |-> NameSRLinux1, kind |-> "linux"] }

\* Descriptors handed to createStackTemplate (Omit<StackTemplate, 'id'>).
StackInputs ==
    { [name |-> NameLab, topology |-> "telemetry",
       configs |-> [f \in {"prometheus.yml"} |-> "global:"]],
      [name |-> NameSRLinux, topology |-> "pair"] }

\* Partial<Template> values handed to updateTemplate.
Patches ==
    { [description |-> "edited"],
      [name |-> NameLab, description |-> Undefined],
      [id |-> IdLab, description |-> "edited"] }

\* Directories outside the storage root: export targets and import sources.
ExtPaths == {"/exp", "/pkg"}

\* The name argument of importTemplate; "" stands for no name given.
ImportNames == {<<>>, NameSRLinux}

\* A storage root left by an earlier session: two valid templates (one with a
\* field this version does not know), one directory whose descriptor is not
\* YAML, and a plain file.
SeededDisk ==
    [n \in {IdSrLinux, IdLab, IdSrLinux1, IdNotes} |->
        IF n = IdSrLinux
        THEN Dir([f \in {DescriptorFile} |->
                 YamlText([name |-> NameSRLinux, kind |-> "nokia_srlinux",
                           vendor |-> "nokia"])])
        ELSE IF n = IdLab
        THEN Dir([f \in {DescriptorFile, "prometheus.yml"} |->
                 IF f = DescriptorFile
                 THEN YamlText([name |-> NameLab, topology |-> "telemetry",
                                configs |-> [g \in {"prometheus.yml"} |-> "global:"]])
                 ELSE PlainText("global:")])
        ELSE IF n = IdSrLinux1
        THEN Dir([f \in {DescriptorFile} |-> PlainText(CorruptBody)])
        ELSE PlainFile]

InitDisks == {EmptyFn, SeededDisk}

\* A template directory someone else wrote: its descriptor carries an id.
ForeignPackage ==
    [f \in {DescriptorFile, "startup.cfg"} |->
        IF f = DescriptorFile
        THEN YamlText([name |-> NameSRLinux, kind |-> "linux", id |-> IdLab,
                       startupConfig |-> "startup.cfg", vendor |-> "acme"])
        ELSE PlainText("hostname r1")]

----------------------------------------------------------------------------
(* The store: templates is the Map this.templates, disk the entries of the  *)
(* storage root (a missing root reads as an empty one: readdir fails and    *)
(* the catalog stays empty; mkdir -p creates it with the first directory),  *)
(* ext the directories outside the root.  last records the latest call: its *)
(* arguments, whether its promise resolved, the error it rejected with (the *)
(* message and the id or path the message names) and the value it returned. *)

NoError == [msg |-> "", names |-> <<>>]

\* A graph without elements, and the record of the latest drop before any
\* drop has happened.
EmptyGraph == [nodes |-> <<>>, edges |-> <<>>]

NoDrop == [n |-> 0, template |-> EmptyFn, position |-> [x |-> 0, y |-> 0],
           before |-> EmptyGraph, createdNodes |-> <<>>, caught |-> FALSE]

\* The calls of the store that are in flight or have completed, in the order
\* they were made: none where every call runs to completion before the next
\* one starts.
NoCalls == <<>>

\* private refreshInterval: number = 60000
refreshInterval == 60000

\* The image provider and the tree of its images when they are constructed:
\* images and lastRefresh of DockerImageProvider, filterText of
\* DockerImagesTreeDataProvider.  now is what Date.now() reads, n the number
\* of calls made, op the latest call, out the latest call of getImages (whether docker was
\* invoked, whether the listing failed, what the call returned), shown the
\* latest result of getChildren at the root (with the images and the filter
\* it was computed from) and opened that of getChildren of a kind category.
NoDocker ==
    [images |-> <<>>, lastRefresh |-> 0, filterText |-> <<>>,
     now |-> 2 * refreshInterval, n |-> 0, op |-> "none",
     out |-> [forceRefresh |-> FALSE, invoked |-> FALSE, failed |-> FALSE,
              listed |-> <<>>, ret |-> <<>>, before |-> <<>>, lastBefore |-> 0],
     shown |-> [items |-> <<>>, images |-> <<>>, filterText |-> <<>>],
     opened |-> [kind |-> <<>>, items |-> <<>>]]

\* An error of fs that reaches the caller as it is.
FsError == [msg |-> "EIO", names |-> <<>>]

\* prev is the operation of the call before this one.
Call(op, id, path, arg, ok, err, ret) ==
    [op |-> op, id |-> id, path |-> path, arg |-> arg,
     ok |-> ok, err |-> err, ret |-> ret, prev |-> last.op]

Init ==
    /\ templates = EmptyFn
    /\ disk \in InitDisks
    /\ ext = [p \in {"/pkg"} |-> ForeignPackage]
    /\ last = [op |-> "none", id |-> <<>>, path |-> "", arg |-> EmptyFn,
               ok |-> TRUE, err |-> NoError, ret |-> EmptyFn, prev |-> "none"]
    /\ nops = 0
    /\ cy = EmptyGraph
    /\ drop = NoDrop
    /\ calls = NoCalls
    /\ docker = NoDocker

\* readFile of a directory's descriptor file succeeds.
HasDescriptor(files) == DescriptorFile \in DOMAIN files

\* loadTemplate(templatePath): the descriptor with id set to the directory
\* name, or null (ok = FALSE) when the file cannot be read, is not YAML, or
\* holds no mapping (data.id = ... throws on null).
loadTemplate(d, dirName) ==
    LET files == d[dirName].files
        data  == parse(files[DescriptorFile])
    IN  IF HasDescriptor(files) /\ data.res = "map"
        THEN [ok |-> TRUE, t |-> Spread(data.doc, [id |-> dirName])]
        ELSE [ok |-> FALSE, t |-> EmptyFn]

\* A mistaken variant: the first directory that fails to load ends the loop,
\* here with nothing loaded.
LoadedCatalogAborting(d) ==
    IF \E n \in DOMAIN d : d[n].isDir /\ ~loadTemplate(d, n).ok
    THEN EmptyFn
    ELSE [n \in {m \in DOMAIN d : d[m].isDir} |-> loadTemplate(d, n).t]

\* The entries loadTemplates inserts, the map having been cleared.
LoadedCatalog(d) ==
    LET dirs == {n \in DOMAIN d : d[n].isDir /\ loadTemplate(d, n).ok}
    IN  [n \in dirs |-> loadTemplate(d, n).t]

\* fs.writeFile(path.join(templatePath, rel), content)
WriteFile(d, dirName, rel, content) ==
    [d EXCEPT ![dirName].files = Put(@, rel, content)]

\* The entry of the storage root for a file named rel that lies in the root
\* itself.
RootFile(rel) == <<rel>>

\* A key of configs that climbs out of the directory of its template and
\* into the directory of the template lab-.
ClimbingKey == "../lab-/template.yaml"

\* path.join(templatePath, configName), for the keys of the model: the
\* directory of the storage root and the file in it the path names.  '..'
\* takes the path to the root, the next segment to a directory of the root.
configPath(dirName, configName) ==
    IF configName = ClimbingKey
    THEN [dir |-> IdLab, file |-> DescriptorFile]
    ELSE [dir |-> dirName, file |-> configName]

\* The loop over Object.entries(template.configs): every content is written
\* at the path its key is joined to.  In the root itself (the template with
\* the empty id) a file is an entry of the root.
WriteConfigs(d, dirName, configs) ==
    IF dirName = <<>>
    THEN [n \in DOMAIN d \cup {RootFile(f) : f \in DOMAIN configs} |->
             IF n \in DOMAIN d THEN d[n] ELSE PlainFile]
    ELSE LET at(n) == {f \in DOMAIN configs : configPath(dirName, f).dir = n}
         IN  [n \in DOMAIN d |->
                 IF at(n) = {} THEN d[n]
                 ELSE [d[n] EXCEPT !.files =
                         [g \in DOMAIN @ \cup {configPath(dirName, f).file : f \in at(n)} |->
                             IF \E f \in at(n) : configPath(dirName, f).file = g
                             THEN PlainText(configs[CHOOSE f \in at(n) :
                                                configPath(dirName, f).file = g])
                             ELSE @[g]]]]

\* Every path the keys of configs are joined to lies in a directory that
\* exists (writeFile creates no directory).
ConfigsWritable(d, dirName, configs) ==
    \A f \in DOMAIN configs :
        LET n == configPath(dirName, f).dir
        IN  n = <<>> \/ (n \in DOMAIN d /\ d[n].isDir)

\* A mistaken variant: the startup file is taken to be missing whenever the
\* template is saved.
accessAlwaysFails(d, dirName, rel) == TRUE

\* await fs.access(configPath) throws: the file does not exist.
accessFails(d, dirName, rel) ==
    IF dirName = <<>> THEN RootFile(rel) \notin DOMAIN d
    ELSE rel \notin DOMAIN d[dirName].files

\* saveTemplate(template).  fp is the step at which the file system fails:
\* 0 never, 1 mkdir, 2 the write of the descriptor, 3 the first write of an
\* auxiliary file.  The result is the disk afterwards and whether the
\* promise resolved.
saveTemplate(d, template, fp) ==
    LET id == template.id
        root == id = <<>>
        mkdirFails == fp = 1 \/ (id \in DOMAIN d /\ ~d[id].isDir)
        d1 == IF root \/ id \in DOMAIN d THEN d ELSE Put(d, id, Dir(EmptyFn))
        write(dd, rel, content) ==
            IF root THEN Put(dd, RootFile(rel), PlainFile)
            ELSE WriteFile(dd, id, rel, content)
        d2 == write(d1, DescriptorFile, stringify(Rest(template, "id")))
        startup == isNodeTemplate(template) /\ Truthy(template, "startupConfig")
        absent == startup /\ accessFails(d2, id, template.startupConfig)
        d3 == IF absent
              THEN write(d2, template.startupConfig, PlainText(PlaceholderBody))
              ELSE d2
        configs == isStackTemplate(template) /\ Truthy(template, "configs")
        d4 == IF configs THEN WriteConfigs(d3, id, template.configs) ELSE d3
    IN  IF mkdirFails THEN [ok |-> FALSE, disk |-> d]
        ELSE IF fp = 2 THEN [ok |-> FALSE, disk |-> d1]
        ELSE IF fp = 3 /\ absent THEN [ok |-> FALSE, disk |-> d2]
        ELSE IF fp = 3 /\ configs /\ DOMAIN template.configs # {}
             THEN [ok |-> FALSE, disk |-> d3]
        ELSE IF configs /\ ~ConfigsWritable(d3, id, template.configs)
             THEN [ok |-> FALSE, disk |-> d3]
        ELSE [ok |-> TRUE, disk |-> d4]

\* The failing steps a behaviour may draw from, none when the file system
\* works and any with a file system that can fail, and the number of calls
\* in the behaviour.
Works == [save |-> {0}, refuse |-> {FALSE}, ops |-> MaxOps]

CanFail == [save |-> 0..3, refuse |-> BOOLEAN, ops |-> MaxFaultOps]

\* A mistaken variant: loadTemplate is started for every directory and not
\* awaited, so the call returns with any part of the entries inserted.
loadTemplatesUnawaited(op, fs) ==
    /\ nops < fs.ops
    /\ \E part \in SUBSET DOMAIN LoadedCatalog(disk) :
           templates' = [n \in part |-> LoadedCatalog(disk)[n]]
    /\ last' = Call(op, <<>>, "", EmptyFn, TRUE, NoError, EmptyFn)
    /\ nops' = nops + 1
    /\ UNCHANGED <<disk, ext>>

\* private async loadTemplates()
loadTemplates(op, fs) ==
    /\ nops < fs.ops
    /\ templates' = LoadedCatalog(disk)
    /\ last' = Call(op, <<>>, "", EmptyFn, TRUE, NoError, EmptyFn)
    /\ nops' = nops + 1
    /\ UNCHANGED <<disk, ext>>

\* public async initialize(): mkdir -p of the root, then loadTemplates.
initialize(fs) == loadTemplates("initialize", fs)

\* public async refresh()
refresh(fs) == loadTemplates("refresh", fs)

\* A mistaken variant: the name is stored as the id.
fullTemplateNamed(template, id) == Spread(template, [id |-> template.name])

\* const fullTemplate = { ...template, id }
fullTemplate(template, id) == Spread(template, [id |-> id])

\* A mistaken variant: the entry is inserted before the save is awaited, and
\* stays when the save fails.
createInsertFirst(op, template, fp, fs) ==
    LET id   == generateTemplateId(template.name, DOMAIN templates)
        full == fullTemplate(template, id)
        save == saveTemplate(disk, full, fp)
    IN  /\ nops < fs.ops
        /\ disk' = save.disk
        /\ templates' = Put(templates, id, full)
        /\ last' = IF save.ok
                   THEN Call(op, id, "", template, TRUE, NoError, full)
                   ELSE Call(op, id, "", template, FALSE, FsError, EmptyFn)
        /\ nops' = nops + 1
        /\ UNCHANGED ext

\* createNodeTemplate and createStackTemplate have the same body.
create(op, template, fp, fs) ==
    LET id   == generateTemplateId(template.name, DOMAIN templates)
        full == fullTemplate(template, id)
        save == saveTemplate(disk, full, fp)
    IN  /\ nops < fs.ops
        /\ disk' = save.disk
        /\ templates' = IF save.ok THEN Put(templates, id, full) ELSE templates
        /\ last' = IF save.ok
                   THEN Call(op, id, "", template, TRUE, NoError, full)
                   ELSE Call(op, id, "", template, FALSE, FsError, EmptyFn)
        /\ nops' = nops + 1
        /\ UNCHANGED ext

createNodeTemplate(fs) ==
    \E t \in NodeInputs, fp \in fs.save : create("createNodeTemplate", t, fp, fs)

createStackTemplate(fs) ==
    \E t \in StackInputs, fp \in fs.save : create("createStackTemplate", t, fp, fs)

\* getTemplate(id): the descriptor, or undefined (found = FALSE).
getTemplate(id) ==
    IF id \in DOMAIN templates
    THEN [found |-> TRUE, t |-> templates[id]]
    ELSE [found |-> FALSE, t |-> EmptyFn]

\* The ids a caller passes: those of the catalog, those of the directories of
\* the storage root, and one that is unknown to both.
IdArgs == DOMAIN templates \cup {n \in DOMAIN disk : disk[n].isDir} \cup {UnknownId}

NotFound(id) == [msg |-> "Template not found", names |-> id]

\* A mistaken variant: the patch replaces the descriptor.
replacedTemplate(template, updates) == Spread(updates, [id |-> template.id])

\* const updatedTemplate = { ...template, ...updates }
mergedTemplate(template, updates) == Spread(template, updates)

\* A mistaken variant: no check that the id is known, the patch is stored
\* under it.
updateUnchecked(id, updates, fp, fs) ==
    LET template == IF id \in DOMAIN templates THEN templates[id] ELSE [id |-> id]
        updatedTemplate == mergedTemplate(template, updates)
        save == saveTemplate(disk, updatedTemplate, fp)
    IN  /\ nops < fs.ops
        /\ nops' = nops + 1
        /\ UNCHANGED ext
        /\ disk' = save.disk
        /\ templates' = IF save.ok THEN Put(templates, id, updatedTemplate)
                        ELSE templates
        /\ last' = IF save.ok
                   THEN Call("updateTemplate", id, "", updates, TRUE, NoError, EmptyFn)
                   ELSE Call("updateTemplate", id, "", updates, FALSE, FsError, EmptyFn)

\* updateTemplate(id, updates)
update(id, updates, fp, fs) ==
    LET updatedTemplate == mergedTemplate(templates[id], updates)
        save == saveTemplate(disk, updatedTemplate, fp)
    IN  /\ nops < fs.ops
        /\ nops' = nops + 1
        /\ UNCHANGED ext
        /\ IF ~getTemplate(id).found
           THEN /\ last' = Call("updateTemplate", id, "", updates, FALSE,
                                NotFound(id), EmptyFn)
                /\ UNCHANGED <<templates, disk>>
           ELSE /\ disk' = save.disk
                /\ templates' = IF save.ok THEN Put(templates, id, updatedTemplate)
                                ELSE templates
                /\ last' = IF save.ok
                           THEN Call("updateTemplate", id, "", updates, TRUE,
                                     NoError, EmptyFn)
                           ELSE Call("updateTemplate", id, "", updates, FALSE,
                                     FsError, EmptyFn)

updateTemplate(fs) ==
    \E id \in IdArgs, u \in Patches, fp \in fs.save : update(id, u, fp, fs)

DeleteFailed(id) == [msg |-> "Failed to delete template", names |-> id]

\* What fs.rm(path, {recursive, force}) can leave of an entry when it fails:
\* the directory with any part of its files.
RmLeftovers(entry) ==
    IF entry.isDir
    THEN {Dir([f \in kept |-> entry.files[f]]) : kept \in SUBSET DOMAIN entry.files}
    ELSE {entry}

\* A mistaken variant: the entry leaves the map before fs.rm is awaited.
deleteMapFirst(id, rmFails, fs) ==
    /\ nops < fs.ops
    /\ nops' = nops + 1
    /\ UNCHANGED ext
    /\ templates' = Drop(templates, id)
    /\ IF rmFails /\ id \in DOMAIN disk
       THEN /\ \E left \in RmLeftovers(disk[id]) : disk' = [disk EXCEPT ![id] = left]
            /\ last' = Call("deleteTemplate", id, "", EmptyFn, FALSE,
                            DeleteFailed(id), EmptyFn)
       ELSE /\ disk' = Drop(disk, id)
            /\ last' = Call("deleteTemplate", id, "", EmptyFn, TRUE, NoError, EmptyFn)

\* deleteTemplate(id).  With force, fs.rm of a path that does not exist
\* resolves; rmFails is a removal the file system refuses.  The empty id is
\* joined to the storage root itself, which is removed with all it holds.
delete(id, rmFails, fs) ==
    /\ nops < fs.ops
    /\ nops' = nops + 1
    /\ UNCHANGED ext
    /\ IF id = <<>>
       THEN IF rmFails
            THEN /\ \E kept \in SUBSET DOMAIN disk : disk' = [n \in kept |-> disk[n]]
                 /\ last' = Call("deleteTemplate", id, "", EmptyFn, FALSE,
                                 DeleteFailed(id), EmptyFn)
                 /\ UNCHANGED templates
            ELSE /\ disk' = EmptyFn
                 /\ templates' = Drop(templates, id)
                 /\ last' = Call("deleteTemplate", id, "", EmptyFn, TRUE, NoError,
                                 EmptyFn)
       ELSE IF rmFails /\ id \in DOMAIN disk
       THEN /\ \E left \in RmLeftovers(disk[id]) : disk' = [disk EXCEPT ![id] = left]
            /\ last' = Call("deleteTemplate", id, "", EmptyFn, FALSE,
                            DeleteFailed(id), EmptyFn)
            /\ UNCHANGED templates
       ELSE /\ disk' = Drop(disk, id)
            /\ templates' = Drop(templates, id)
            /\ last' = Call("deleteTemplate", id, "", EmptyFn, TRUE, NoError, EmptyFn)

deleteTemplate(fs) == \E id \in IdArgs, rmFails \in fs.refuse : delete(id, rmFails, fs)

\* fs.cp(source, target, {recursive: true}) of a directory's files onto the
\* files of the target (none when the target does not exist).
CopyOnto(targetFiles, sourceFiles) ==
    [f \in DOMAIN targetFiles \cup DOMAIN sourceFiles |->
        IF f \in DOMAIN sourceFiles THEN sourceFiles[f] ELSE targetFiles[f]]

\* What a failing fs.cp can leave in the target: any part of the copy.
PartialCopies(targetFiles, sourceFiles) ==
    {CopyOnto(targetFiles, [f \in part |-> sourceFiles[f]]) :
        part \in SUBSET DOMAIN sourceFiles}

ExportFailed(id) == [msg |-> "Failed to export template", names |-> id]

FilesAt(e, path) == IF path \in DOMAIN e THEN e[path] ELSE EmptyFn

\* exportTemplate(id, targetPath)
export(id, targetPath, cpFails, fs) ==
    /\ nops < fs.ops
    /\ nops' = nops + 1
    /\ UNCHANGED <<templates, disk>>
    /\ IF id \notin DOMAIN disk
       THEN /\ last' = Call("exportTemplate", id, targetPath, EmptyFn, FALSE,
                            ExportFailed(id), EmptyFn)
            /\ UNCHANGED ext
       ELSE IF cpFails
       THEN /\ \E part \in PartialCopies(FilesAt(ext, targetPath), disk[id].files) :
                    ext' = Put(ext, targetPath, part)
            /\ last' = Call("exportTemplate", id, targetPath, EmptyFn, FALSE,
                            ExportFailed(id), EmptyFn)
       ELSE /\ ext' = Put(ext, targetPath,
                          CopyOnto(FilesAt(ext, targetPath), disk[id].files))
            /\ last' = Call("exportTemplate", id, targetPath, EmptyFn, TRUE,
                            NoError, EmptyFn)

exportTemplate(fs) ==
    \E id \in IdArgs, p \in ExtPaths, cpFails \in fs.refuse : export(id, p, cpFails, fs)

ImportFailed(sourcePath) == [msg |-> "Failed to import template from", names |-> sourcePath]

\* importTemplate(sourcePath, name).  cpFails is a copy the file system
\* refuses, fp the failing step of saveTemplate.  Every throw inside the try
\* block is caught and wrapped.
import(sourcePath, name, cpFails, fp, fs) ==
    LET source   == FilesAt(ext, sourcePath)
        readable == sourcePath \in DOMAIN ext /\ HasDescriptor(source)
        parsed   == parse(source[DescriptorFile])
        data     == IF name # <<>> THEN Spread(parsed.doc, [name |-> name])
                    ELSE parsed.doc
        id       == generateTemplateId(data.name, DOMAIN templates)
        target   == IF id \in DOMAIN disk THEN disk[id].files ELSE EmptyFn
        copied   == Put(disk, id, Dir(CopyOnto(target, source)))
        template == Spread(data, [id |-> id])
        save     == saveTemplate(copied, template, fp)
        failed   == Call("importTemplate", <<>>, sourcePath, [name |-> name], FALSE,
                         ImportFailed(sourcePath), EmptyFn)
    IN  /\ nops < fs.ops
        /\ nops' = nops + 1
        /\ UNCHANGED ext
        /\ IF ~readable \/ parsed.res # "map" \/ "name" \notin DOMAIN data
           THEN /\ last' = failed
                /\ UNCHANGED <<templates, disk>>
           ELSE IF id \in DOMAIN disk /\ ~disk[id].isDir
           THEN /\ last' = failed
                /\ UNCHANGED <<templates, disk>>
           ELSE IF cpFails
           THEN /\ \E part \in PartialCopies(target, source) :
                        disk' = Put(disk, id, Dir(part))
                /\ last' = failed
                /\ UNCHANGED templates
           ELSE /\ disk' = save.disk
                /\ templates' = IF save.ok THEN Put(templates, id, template)
                                ELSE templates
                /\ last' = IF save.ok
                           THEN Call("importTemplate", id, sourcePath, [name |-> name],
                                     TRUE, NoError, template)
                           ELSE failed

importTemplate(fs) ==
    \E p \in ExtPaths, name \in ImportNames, cpFails \in fs.refuse, fp \in fs.save :
        import(p, name, cpFails, fp, fs)

----------------------------------------------------------------------------
(* The built-in catalog.                                                   *)

NameAristaCEOS == <<"A","r","i","s","t","a"," ","c","E","O","S">>

NameLinuxHost == <<"L","i","n","u","x"," ","H","o","s","t">>

NameTelemetryStack ==
    <<"T","e","l","e","m","e","t","r","y"," ","S","t","a","c","k">>

IdAristaCeos == <<"a","r","i","s","t","a","-","c","e","o","s">>

IdLinuxHost == <<"l","i","n","u","x","-","h","o","s","t">>

IdTelemetryStack ==
    <<"t","e","l","e","m","e","t","r","y","-","s","t","a","c","k">>

\* Keys of topology.nodes and interface names.
Grafana == <<"g","r","a","f","a","n","a">>

Prometheus == <<"p","r","o","m","e","t","h","e","u","s">>

Alloy == <<"a","l","l","o","y">>

Eth1 == <<"e","t","h","1">>

Eth2 == <<"e","t","h","2">>

\* The endpoint string `${key}:${iface}`.
Endpoint(key, iface) == key \o <<":">> \o iface

\* The topology of the built-in stack.  nodes is the list Object.entries
\* gives for the mapping (the keys in insertion order), links the array.
TelemetryTopology ==
    [name  |-> "telemetry-stack",
     nodes |-> << [key |-> Grafana,
                   config |-> [kind |-> "linux", image |-> "grafana/grafana:latest",
                               ports |-> <<"3000:3000">>,
                               env |-> [GF_SECURITY_ADMIN_PASSWORD |-> "admin"]]],
                  [key |-> Prometheus,
                   config |-> [kind |-> "linux", image |-> "prom/prometheus:latest",
                               ports |-> <<"9090:9090">>,
                               binds |-> <<"./prometheus.yml:/etc/prometheus/prometheus.yml:ro">>]],
                  [key |-> Alloy,
                   config |-> [kind |-> "linux", image |-> "grafana/alloy:latest",
                               binds |-> <<"./alloy.river:/etc/alloy/config.river:ro">>]] >>,
     links |-> << [endpoints |-> <<Endpoint(Grafana, Eth1), Endpoint(Prometheus, Eth1)>>],
                  [endpoints |-> <<Endpoint(Prometheus, Eth2), Endpoint(Alloy, Eth1)>>] >>]

\* A mistaken variant: the second link names a node the stack does not have,
\* and the node templates are left out.
defaultTemplatesDangling ==
    << [name |-> NameTelemetryStack,
        description |-> "Complete telemetry stack with Grafana, Prometheus, and Alloy",
        topology |-> [TelemetryTopology EXCEPT
                        !.links[2].endpoints[2] = Endpoint(<<"l","o","k","i">>, Eth1)],
        configs |-> [f \in {"prometheus.yml", "alloy.river"} |->
                        IF f = "prometheus.yml" THEN "global: scrape_interval: 15s"
                        ELSE "// Basic Alloy configuration"]] >>

\* const defaultTemplates
defaultTemplates ==
    << [name |-> NameSRLinux,
        description |-> "Nokia SR Linux router with basic configuration",
        kind |-> "nokia_srlinux", image |-> "ghcr.io/nokia/srlinux:latest",
        type |-> "ixrd3", topoViewerRole |-> "pe"],
       [name |-> NameAristaCEOS, description |-> "Arista cEOS switch",
        kind |-> "arista_ceos", image |-> "ceos:latest", topoViewerRole |-> "pe"],
       [name |-> NameLinuxHost, description |-> "Alpine Linux host for testing",
        kind |-> "linux", image |-> "alpine:latest", topoViewerRole |-> "host"],
       [name |-> NameTelemetryStack,
        description |-> "Complete telemetry stack with Grafana, Prometheus, and Alloy",
        topology |-> TelemetryTopology,
        configs |-> [f \in {"prometheus.yml", "alloy.river"} |->
                        IF f = "prometheus.yml" THEN "global: scrape_interval: 15s"
                        ELSE "// Basic Alloy configuration"]] >>

\* The loop over defaultTemplates from entry i on, with catalog t and disk d:
\* each entry goes through createNodeTemplate or createStackTemplate, and the
\* first create that rejects ends the call.  failAt is the entry whose save
\* fails at step fp (0 for none).
RECURSIVE SeedFrom(_, _, _, _, _)
SeedFrom(i, t, d, failAt, fp) ==
    IF i > Len(defaultTemplates) THEN [ok |-> TRUE, templates |-> t, disk |-> d]
    ELSE LET id   == generateTemplateId(defaultTemplates[i].name, DOMAIN t)
             full == fullTemplate(defaultTemplates[i], id)
             save == saveTemplate(d, full, IF i = failAt THEN fp ELSE 0)
         IN  IF save.ok THEN SeedFrom(i + 1, Put(t, id, full), save.disk, failAt, fp)
             ELSE [ok |-> FALSE, templates |-> t, disk |-> save.disk]

\* A mistaken variant: the built-in entries are created whatever the catalog
\* holds.
seedAlways(failAt, fp, fs) ==
    LET seeded == SeedFrom(1, templates, disk, failAt, fp)
    IN  /\ nops < fs.ops
        /\ nops' = nops + 1
        /\ UNCHANGED ext
        /\ templates' = seeded.templates
        /\ disk' = seeded.disk
        /\ last' = IF seeded.ok
                   THEN Call("createDefaultTemplates", <<>>, "", EmptyFn, TRUE,
                             NoError, EmptyFn)
                   ELSE Call("createDefaultTemplates", <<>>, "", EmptyFn, FALSE,
                             FsError, EmptyFn)

\* createDefaultTemplates()
seed(failAt, fp, fs) ==
    LET seeded == SeedFrom(1, templates, disk, failAt, fp)
    IN  /\ nops < fs.ops
        /\ nops' = nops + 1
        /\ UNCHANGED ext
        /\ IF Cardinality(DOMAIN templates) > 0
           THEN /\ UNCHANGED <<templates, disk>>
                /\ last' = Call("createDefaultTemplates", <<>>, "", EmptyFn, TRUE,
                                NoError, EmptyFn)
           ELSE /\ templates' = seeded.templates
                /\ disk' = seeded.disk
                /\ last' = IF seeded.ok
                           THEN Call("createDefaultTemplates", <<>>, "", EmptyFn,
                                     TRUE, NoError, EmptyFn)
                           ELSE Call("createDefaultTemplates", <<>>, "", EmptyFn,
                                     FALSE, FsError, EmptyFn)

createDefaultTemplates(fs) ==
    \E fp \in fs.save :
        \E failAt \in (IF fp = 0 THEN {0} ELSE 1..Len(defaultTemplates)) :
            seed(failAt, fp, fs)

----------------------------------------------------------------------------
(* The templates panel: the graph cy and the drop of a template on it.      *)
(* cy.nodes and cy.edges list the elements in the order they were added; a  *)
(* node is its data (id, name, extraData) with its position, an edge its    *)
(* data.                                                                    *)

\* Number of drops in one behaviour.
MaxDrops == 2

\* The value of a variable no value was bound to (a destructuring that runs
\* out of parts, a key an object does not have).
NoValue == <<"undefined">>

\* A value that is not a string, in a place where a string is expected.
NotAString == <<"number">>

\* A mistaken variant: the characters outside the class become separators.
RemoveOthersDashed(s) == ReplaceRuns(s)

\* s.replace(/[^a-z0-9]/g, '')
RemoveOthers(s) == SelectSeq(s, LAMBDA c : c \in AlnumClass)

\* template.name.toLowerCase().replace(/[^a-z0-9]/g, '')
baseNodeId(name) == RemoveOthers(toLowerCase(name))

\* cy.nodes().map(n => n.id())
existingNodes(g) == {g.nodes[i].id : i \in 1..Len(g.nodes)}

\* The while loop that makes an id unique: nodeId is the candidate, counter
\* the next suffix to try.
RECURSIVE UniqueLoop(_, _, _, _)
UniqueLoop(base, nodeId, counter, existing) ==
    IF nodeId \in existing
    THEN UniqueLoop(base, base \o ToDecimal(counter), counter + 1, existing)
    ELSE nodeId

\* A mistaken variant: the list of existing ids is not consulted.
uniqueNodeIdUnchecked(base, existing) == base

uniqueNodeId(base, existing) == UniqueLoop(base, base, 1, existing)

\* t.f || dflt, for a property that holds a string.
OrElse(t, f, dflt) == IF f \in DOMAIN t /\ t[f] # "" THEN t[f] ELSE dflt

\* if (template.f): a string is truthy when it is not empty, an object or an
\* array whenever it is there.
Present(t, f) == f \in DOMAIN t /\ (f = "cmd" => t[f] # "")

\* The properties addNodeFromTemplate copies only when they are there.
AdditionalProperties == {"env", "cmd", "exec", "binds", "ports", "labels"}

\* nodeData.extraData of addNodeFromTemplate
nodeExtraData(template, nodeId) ==
    LET copied == {f \in AdditionalProperties : Present(template, f)}
    IN  [f \in {"name", "kind", "image", "type", "group", "topoViewerRole"}
               \cup copied |->
            IF f = "name" THEN nodeId
            ELSE IF f = "kind" THEN template.kind
            ELSE IF f = "image" THEN OrElse(template, "image", "")
            ELSE IF f = "type" THEN OrElse(template, "type", "")
            ELSE IF f = "group" THEN OrElse(template, "group", "")
            ELSE IF f = "topoViewerRole" THEN OrElse(template, "topoViewerRole", "pe")
            ELSE template[f]]

\* A mistaken variant: the node takes the place of the elements the graph
\* had.
AddNodeReplacing(g, nodeId, extraData, position) ==
    [nodes |-> << [id |-> nodeId, name |-> nodeId,
                   extraData |-> extraData, position |-> position] >>,
     edges |-> <<>>]

\* cy.add({ group: 'nodes', data, position })
AddNode(g, nodeId, extraData, position) ==
    [g EXCEPT !.nodes = Append(@, [id |-> nodeId, name |-> nodeId,
                                   extraData |-> extraData, position |-> position])]

\* The outcome of an instantiation: the graph, the mapping createdNodes from
\* node keys to graph ids, and whether it threw.
Outcome(g, created, threw) == [cy |-> g, createdNodes |-> created, threw |-> threw]

\* addNodeFromTemplate(template, position); template.name.toLowerCase()
\* throws when the template has no name.
addNodeFromTemplate(g, template, position) ==
    IF "name" \notin DOMAIN template THEN Outcome(g, EmptyFn, TRUE)
    ELSE LET nodeId == uniqueNodeId(baseNodeId(template.name), existingNodes(g))
         IN  Outcome(AddNode(g, nodeId, nodeExtraData(template, nodeId), position),
                     EmptyFn, FALSE)

\* const nodeSpacing and const nodesPerRow
nodeSpacing == 150

nodesPerRow == 3

\* A mistaken variant: the row and the column are exchanged.
nodePositionTransposed(basePosition, nodeIndex) ==
    [x |-> basePosition.x + (nodeIndex \div nodesPerRow) * nodeSpacing,
     y |-> basePosition.y + (nodeIndex % nodesPerRow) * nodeSpacing]

\* const nodePosition
nodePosition(basePosition, nodeIndex) ==
    [x |-> basePosition.x + (nodeIndex % nodesPerRow) * nodeSpacing,
     y |-> basePosition.y + (nodeIndex \div nodesPerRow) * nodeSpacing]

\* The forEach over Object.entries(template.topology.nodes) from entry i on
\* (nodeIndex = i - 1): the id is made unique among the nodes the graph has
\* at that moment, the ones added earlier in the loop included.
RECURSIVE AddStackNodes(_, _, _, _, _)
AddStackNodes(entries, i, g, created, basePosition) ==
    IF i > Len(entries) THEN Outcome(g, created, FALSE)
    ELSE LET nodeName == entries[i].key
             nodeId   == uniqueNodeId(nodeName, existingNodes(g))
             extra    == Spread([name |-> nodeId], entries[i].config)
         IN  AddStackNodes(entries, i + 1,
                           AddNode(g, nodeId, extra, nodePosition(basePosition, i - 1)),
                           Put(created, nodeName, nodeId), basePosition)

\* s.split(':') from position i on; part is the part being read.
RECURSIVE SplitFrom(_, _, _)
SplitFrom(s, i, part) ==
    IF i > Len(s) THEN <<part>>
    ELSE IF s[i] = ":" THEN <<part>> \o SplitFrom(s, i + 1, <<>>)
    ELSE SplitFrom(s, i + 1, Append(part, s[i]))

split(s) == SplitFrom(s, 1, <<>>)

\* const [first, second] = parts
First(parts) == parts[1]

Second(parts) == IF Len(parts) >= 2 THEN parts[2] ELSE NoValue

\* createdNodes[key]
Lookup(created, key) == IF key \in DOMAIN created THEN created[key] ELSE NoValue

\* if (id): a string that is there and is not empty.
TruthyId(id) == id # NoValue /\ id # <<>>

\* `${sourceId}-${targetId}-${index}`
edgeId(sourceId, targetId, index) ==
    sourceId \o <<"-">> \o targetId \o <<"-">> \o ToDecimal(index)

\* cy.add({ group: 'edges', data })
AddEdge(g, sourceId, targetId, index, sourceIface, targetIface) ==
    [g EXCEPT !.edges = Append(@,
        [id |-> edgeId(sourceId, targetId, index),
         source |-> sourceId, target |-> targetId,
         sourceName |-> sourceId, targetName |-> targetId,
         sourceEndpoint |-> sourceIface, targetEndpoint |-> targetIface])]

\* A link entry that is null: reading link.endpoints throws.
IsNull(link) == "null" \in DOMAIN link

\* A mistaken variant: an entry whose first endpoint resolves to no node
\* ends the loop.
RECURSIVE AddLinksUntilDangling(_, _, _, _)
AddLinksUntilDangling(links, i, g, created) ==
    IF i > Len(links) THEN Outcome(g, created, FALSE)
    ELSE IF IsNull(links[i]) THEN Outcome(g, created, TRUE)
    ELSE IF "endpoints" \notin DOMAIN links[i] \/ Len(links[i].endpoints) # 2
         THEN AddLinksUntilDangling(links, i + 1, g, created)
    ELSE IF \E j \in 1..2 : links[i].endpoints[j] = NotAString
         THEN Outcome(g, created, TRUE)
    ELSE LET source == split(links[i].endpoints[1])
             target == split(links[i].endpoints[2])
             sourceId == Lookup(created, First(source))
             targetId == Lookup(created, First(target))
         IN  IF TruthyId(sourceId) /\ TruthyId(targetId)
             THEN AddLinksUntilDangling(links, i + 1,
                      AddEdge(g, sourceId, targetId, i - 1, Second(source), Second(target)),
                      created)
             ELSE Outcome(g, created, FALSE)

\* The forEach over template.topology.links from entry i on (index = i - 1).
\* A null entry and an endpoint without split throw and end the loop.
RECURSIVE AddLinks(_, _, _, _)
AddLinks(links, i, g, created) ==
    IF i > Len(links) THEN Outcome(g, created, FALSE)
    ELSE IF IsNull(links[i]) THEN Outcome(g, created, TRUE)
    ELSE IF "endpoints" \notin DOMAIN links[i] \/ Len(links[i].endpoints) # 2
         THEN AddLinks(links, i + 1, g, created)
    ELSE IF \E j \in 1..2 : links[i].endpoints[j] = NotAString
         THEN Outcome(g, created, TRUE)
    ELSE LET source == split(links[i].endpoints[1])
             target == split(links[i].endpoints[2])
             sourceId == Lookup(created, First(source))
             targetId == Lookup(created, First(target))
         IN  IF TruthyId(sourceId) /\ TruthyId(targetId)
             THEN AddLinks(links, i + 1,
                      AddEdge(g, sourceId, targetId, i - 1, Second(source), Second(target)),
                      created)
             ELSE AddLinks(links, i + 1, g, created)

\* A mistaken variant: a template without topology.nodes is taken for a stack
\* without nodes, and nothing is thrown.
addStackFromTemplateLenient(g, template, position) ==
    IF "topology" \notin DOMAIN template THEN Outcome(g, EmptyFn, FALSE)
    ELSE IF "nodes" \notin DOMAIN template.topology
         THEN IF "links" \in DOMAIN template.topology
              THEN AddLinks(template.topology.links, 1, g, EmptyFn)
              ELSE Outcome(g, EmptyFn, FALSE)
    ELSE LET added == AddStackNodes(template.topology.nodes, 1, g, EmptyFn, position)
         IN  IF "links" \in DOMAIN template.topology
             THEN AddLinks(template.topology.links, 1, added.cy, added.createdNodes)
             ELSE added

\* addStackFromTemplate(template, position).  Reading template.topology.nodes
\* throws when the template has no topology, Object.entries when the
\* topology has no nodes.
addStackFromTemplate(g, template, position) ==
    IF "topology" \notin DOMAIN template THEN Outcome(g, EmptyFn, TRUE)
    ELSE IF "nodes" \notin DOMAIN template.topology THEN Outcome(g, EmptyFn, TRUE)
    ELSE LET added == AddStackNodes(template.topology.nodes, 1, g, EmptyFn, position)
         IN  IF "links" \in DOMAIN template.topology
             THEN AddLinks(template.topology.links, 1, added.cy, added.createdNodes)
             ELSE added

\* Node keys of the stacks that are dropped.
KeyA == <<"a">>

KeyB == <<"b">>

KeyA1 == <<"a","1">>

KeyC == <<"c">>

KeyD == <<"d">>

IdSrlinuxNode == <<"s","r","l","i","n","u","x">>

\* The node templates that are dropped: one with the required properties
\* only, one with every optional property (its name has the base of the
\* first), one whose base is the first suffixed id of the others, and one
\* with an empty command.
NodeDrops ==
    { [id |-> IdSrLinux, name |-> NameSRLinux, kind |-> "nokia_srlinux"],
      [id |-> IdSrLinux1, name |-> IdSrLinux, kind |-> "linux",
       description |-> "host", image |-> "alpine:latest", type |-> "ixrd3",
       group |-> "core", topoViewerRole |-> "host",
       env |-> [MODE |-> "lab"], cmd |-> "sleep 1", exec |-> <<"ip link">>,
       binds |-> <<"./a:/a">>, ports |-> <<"80:80">>, labels |-> [tier |-> "edge"]],
      [id |-> IdLinuxHost, name |-> NameSRLinux1, kind |-> "linux", cmd |-> "",
       ports |-> <<"22:22">>] }

Link(sourceEndpoint, targetEndpoint) ==
    [endpoints |-> <<sourceEndpoint, targetEndpoint>>]

Plain(key) == [key |-> key, config |-> [kind |-> "linux"]]

\* The stacks that are dropped.  Pair has a link to a node it does not have
\* before the link between its two nodes; Quad has four nodes, a link with
\* one endpoint, a link without endpoints, and a link between its last two
\* nodes; Broken has a null entry and an endpoint that is a number between
\* links that are well formed; Loose has endpoints that are not of the form
\* key:iface.
StackPair ==
    [id |-> IdLab, name |-> NameLab,
     topology |-> [name |-> "pair", nodes |-> <<Plain(KeyA), Plain(KeyB)>>,
                   links |-> << Link(Endpoint(KeyC, Eth1), Endpoint(KeyB, Eth1)),
                                Link(Endpoint(KeyA, Eth1), Endpoint(KeyB, Eth1)) >>]]

StackQuad ==
    [id |-> IdLab, name |-> NameLab,
     topology |-> [name |-> "quad",
                   nodes |-> <<Plain(KeyA), Plain(KeyB), Plain(KeyA1), Plain(KeyD)>>,
                   links |-> << [endpoints |-> <<Endpoint(KeyA, Eth1)>>],
                                [note |-> "spare"],
                                Link(Endpoint(KeyA1, Eth1), Endpoint(KeyD, Eth2)) >>]]

StackBroken ==
    [id |-> IdLab, name |-> NameLab,
     topology |-> [name |-> "broken", nodes |-> <<Plain(KeyA), Plain(KeyB)>>,
                   links |-> << Link(Endpoint(KeyA, Eth1), Endpoint(KeyB, Eth1)),
                                [null |-> TRUE],
                                Link(Endpoint(KeyB, Eth2), Endpoint(KeyA, Eth2)) >>]]

StackNumber ==
    [id |-> IdLab, name |-> NameLab,
     topology |-> [name |-> "number", nodes |-> <<Plain(KeyA), Plain(KeyB)>>,
                   links |-> << Link(NotAString, Endpoint(KeyB, Eth1)),
                                Link(Endpoint(KeyB, Eth2), Endpoint(KeyA, Eth2)) >>]]

StackLoose ==
    [id |-> IdLab, name |-> NameLab,
     topology |-> [name |-> "loose", nodes |-> <<Plain(KeyA), Plain(KeyB)>>,
                   links |-> << Link(KeyA, Endpoint(KeyB, Eth1)),
                                Link(Endpoint(KeyA, Eth1) \o <<":">> \o Eth2,
                                     Endpoint(KeyB, Eth2)),
                                Link(KeyD, Endpoint(KeyB, Eth1)) >>]]

StackTelemetry ==
    [id |-> IdTelemetryStack, name |-> NameTelemetryStack,
     topology |-> TelemetryTopology]

\* Descriptors that are malformed: a stack without topology.nodes, a stack
\* without nodes that has links, and one with neither kind nor topology.
MalformedDrops ==
    { [id |-> IdLab, name |-> NameLab, topology |-> [name |-> "empty"]],
      [id |-> IdLab, name |-> NameLab,
       topology |-> [name |-> "links",
                     links |-> <<Link(Endpoint(KeyA, Eth1), Endpoint(KeyB, Eth1))>>]],
      [id |-> IdLab, name |-> NameLab] }

StackDrops ==
    {StackPair, StackQuad, StackBroken, StackNumber, StackLoose, StackTelemetry}
        \cup MalformedDrops

\* The positions of a drop, in graph coordinates.
Positions == {[x |-> 0, y |-> 0], [x |-> 40, y |-> 25]}

\* A graph that has elements before the first drop.
BusyGraph ==
    [nodes |-> << [id |-> IdSrlinuxNode, name |-> IdSrlinuxNode,
                   extraData |-> [name |-> IdSrlinuxNode, kind |-> "nokia_srlinux"],
                   position |-> [x |-> 0, y |-> 0]],
                  [id |-> KeyA, name |-> KeyA,
                   extraData |-> [name |-> KeyA, kind |-> "linux"],
                   position |-> [x |-> 150, y |-> 0]] >>,
     edges |-> << [id |-> <<"e","1">>, source |-> IdSrlinuxNode, target |-> KeyA,
                   sourceName |-> IdSrlinuxNode, targetName |-> KeyA,
                   sourceEndpoint |-> Eth1, targetEndpoint |-> Eth1] >>]

InitGraphs == {EmptyGraph, BusyGraph}

InitEngine ==
    /\ templates = EmptyFn
    /\ disk = EmptyFn
    /\ ext = EmptyFn
    /\ last = [op |-> "none", id |-> <<>>, path |-> "", arg |-> EmptyFn,
               ok |-> TRUE, err |-> NoError, ret |-> EmptyFn, prev |-> "none"]
    /\ nops = 0
    /\ cy \in InitGraphs
    /\ drop = NoDrop
    /\ calls = NoCalls
    /\ docker = NoDocker

\* The drop listener of the canvas: the dragged JSON is parsed, a template
\* with kind goes to addNodeFromTemplate and any other to
\* addStackFromTemplate, and whatever they throw is caught and logged.
dropOn(template, position) ==
    LET out == IF "kind" \in DOMAIN template
               THEN addNodeFromTemplate(cy, template, position)
               ELSE addStackFromTemplate(cy, template, position)
    IN  /\ drop.n < MaxDrops
        /\ cy' = out.cy
        /\ drop' = [n |-> drop.n + 1, template |-> template, position |-> position,
                    before |-> cy, createdNodes |-> out.createdNodes,
                    caught |-> out.threw]
        /\ UNCHANGED <<store, docker>>

dropNodeTemplate == \E t \in NodeDrops, p \in Positions : dropOn(t, p)

dropStackTemplate == \E t \in StackDrops, p \in Positions : dropOn(t, p)

NextEngine ==
    \/ dropNodeTemplate
    \/ dropStackTemplate

SpecEngine == InitEngine /\ [][NextEngine]_vars

\* Stacks whose node keys hold dashes, as containerlab node names do: the
\* nodes core and edge-a, and the nodes core-edge and a, one link each.
KeyCore == <<"c","o","r","e">>

KeyEdgeA == <<"e","d","g","e","-","a">>

KeyCoreEdge == <<"c","o","r","e","-","e","d","g","e">>

StackCore ==
    [id |-> IdLab, name |-> NameLab,
     topology |-> [name |-> "core", nodes |-> <<Plain(KeyCore), Plain(KeyEdgeA)>>,
                   links |-> << Link(Endpoint(KeyCore, Eth1), Endpoint(KeyEdgeA, Eth1)) >>]]

StackCoreEdge ==
    [id |-> IdLab, name |-> NameLab,
     topology |-> [name |-> "core-edge", nodes |-> <<Plain(KeyCoreEdge), Plain(KeyA)>>,
                   links |-> << Link(Endpoint(KeyCoreEdge, Eth1), Endpoint(KeyA, Eth1)) >>]]

dropDashedStack == \E t \in {StackCore, StackCoreEdge}, p \in Positions : dropOn(t, p)

NextDashed ==
    \/ dropNodeTemplate
    \/ dropStackTemplate
    \/ dropDashedStack

SpecDashed == InitEngine /\ [][NextDashed]_vars

\* The store used one call at a time, on a file system that works.
Next ==
    \/ initialize(Works) /\ UNCHANGED <<engine, calls, docker>>
    \/ refresh(Works) /\ UNCHANGED <<engine, calls, docker>>
    \/ createNodeTemplate(Works) /\ UNCHANGED <<engine, calls, docker>>
    \/ createStackTemplate(Works) /\ UNCHANGED <<engine, calls, docker>>
    \/ updateTemplate(Works) /\ UNCHANGED <<engine, calls, docker>>
    \/ deleteTemplate(Works) /\ UNCHANGED <<engine, calls, docker>>
    \/ exportTemplate(Works) /\ UNCHANGED <<engine, calls, docker>>
    \/ importTemplate(Works) /\ UNCHANGED <<engine, calls, docker>>

Spec == Init /\ [][Next]_vars

\* The same calls on a file system that can fail at any step.
NextFaults ==
    \/ initialize(CanFail) /\ UNCHANGED <<engine, calls, docker>>
    \/ refresh(CanFail) /\ UNCHANGED <<engine, calls, docker>>
    \/ createNodeTemplate(CanFail) /\ UNCHANGED <<engine, calls, docker>>
    \/ createStackTemplate(CanFail) /\ UNCHANGED <<engine, calls, docker>>
    \/ updateTemplate(CanFail) /\ UNCHANGED <<engine, calls, docker>>
    \/ deleteTemplate(CanFail) /\ UNCHANGED <<engine, calls, docker>>
    \/ exportTemplate(CanFail) /\ UNCHANGED <<engine, calls, docker>>
    \/ importTemplate(CanFail) /\ UNCHANGED <<engine, calls, docker>>

SpecFaults == Init /\ [][NextFaults]_vars

\* Updates, exports and imports of an initialized store, one call longer.
Longer == [save |-> {0}, refuse |-> {FALSE}, ops |-> MaxOps + 1]

NextRoundTrip ==
    \/ initialize(Longer) /\ UNCHANGED <<engine, calls, docker>>
    \/ updateTemplate(Longer) /\ UNCHANGED <<engine, calls, docker>>
    \/ exportTemplate(Longer) /\ UNCHANGED <<engine, calls, docker>>
    \/ importTemplate(Longer) /\ UNCHANGED <<engine, calls, docker>>

SpecRoundTrip == Init /\ [][NextRoundTrip]_vars

\* A store that is seeded on its first run, on a file system whose writes
\* can fail.
Seeding == [save |-> 0..3, refuse |-> {FALSE}, ops |-> MaxOps]

NextSeed ==
    \/ initialize(Seeding) /\ UNCHANGED <<engine, calls, docker>>
    \/ createDefaultTemplates(Seeding) /\ UNCHANGED <<engine, calls, docker>>
    \/ createNodeTemplate(Seeding) /\ UNCHANGED <<engine, calls, docker>>
    \/ deleteTemplate(Seeding) /\ UNCHANGED <<engine, calls, docker>>

SpecSeed == Init /\ [][NextSeed]_vars

----------------------------------------------------------------------------
(* The panel: one TemplateManager and one canvas, the calls of the store    *)
(* and the drops on the canvas in any order.                                *)

\* Number of steps, calls and drops together, in one behaviour of the panel.
MaxPanelSteps == 2

Panel == [save |-> {0}, refuse |-> {FALSE}, ops |-> MaxPanelSteps]

Within == nops + drop.n < MaxPanelSteps

InitPanel ==
    /\ templates = EmptyFn
    /\ disk \in InitDisks
    /\ ext = [p \in {"/pkg"} |-> ForeignPackage]
    /\ last = [op |-> "none", id |-> <<>>, path |-> "", arg |-> EmptyFn,
               ok |-> TRUE, err |-> NoError, ret |-> EmptyFn, prev |-> "none"]
    /\ nops = 0
    /\ cy \in InitGraphs
    /\ drop = NoDrop
    /\ calls = NoCalls
    /\ docker = NoDocker

NextPanel ==
    \/ Within /\ initialize(Panel) /\ UNCHANGED <<engine, calls, docker>>
    \/ Within /\ refresh(Panel) /\ UNCHANGED <<engine, calls, docker>>
    \/ Within /\ createDefaultTemplates(Panel) /\ UNCHANGED <<engine, calls, docker>>
    \/ Within /\ createNodeTemplate(Panel) /\ UNCHANGED <<engine, calls, docker>>
    \/ Within /\ createStackTemplate(Panel) /\ UNCHANGED <<engine, calls, docker>>
    \/ Within /\ updateTemplate(Panel) /\ UNCHANGED <<engine, calls, docker>>
    \/ Within /\ deleteTemplate(Panel) /\ UNCHANGED <<engine, calls, docker>>
    \/ Within /\ exportTemplate(Panel) /\ UNCHANGED <<engine, calls, docker>>
    \/ Within /\ importTemplate(Panel) /\ UNCHANGED <<engine, calls, docker>>
    \/ Within /\ dropNodeTemplate
    \/ Within /\ dropStackTemplate

SpecPanel == InitPanel /\ [][NextPanel]_vars

----------------------------------------------------------------------------
(* The store called with descriptors of any shape.                         *)

\* getTemplates(), getNodeTemplates() and getStackTemplates(): the
\* descriptors of the catalog, as a set.
getTemplates == {templates[id] : id \in DOMAIN templates}

getNodeTemplates == {t \in getTemplates : isNodeTemplate(t)}

getStackTemplates == {t \in getTemplates : isStackTemplate(t)}

\* A storage root with a directory whose descriptor is a mapping without kind
\* and without topology.
ShapelessDisk ==
    Put(SeededDisk, IdLinuxHost,
        Dir([f \in {DescriptorFile} |->
                YamlText([name |-> NameLinuxHost, description |-> "neither shape"])]))

\* Values handed to createNodeTemplate: an empty kind, no kind, an empty name.
LooseNodeInputs ==
    { [name |-> NameLinuxHost, kind |-> ""],
      [name |-> NameAristaCEOS],
      [name |-> <<>>, kind |-> "linux"] }

\* Values handed to createStackTemplate: no topology, and a configs key that
\* climbs out of the directory.
LooseStackInputs ==
    { [name |-> NameTelemetryStack],
      [name |-> NameSRLinux1, topology |-> "pair",
       configs |-> [f \in {ClimbingKey} |-> "name: overwritten"]] }

InitLoose ==
    /\ templates = EmptyFn
    /\ disk \in {EmptyFn, ShapelessDisk}
    /\ ext = EmptyFn
    /\ last = [op |-> "none", id |-> <<>>, path |-> "", arg |-> EmptyFn,
               ok |-> TRUE, err |-> NoError, ret |-> EmptyFn, prev |-> "none"]
    /\ nops = 0
    /\ cy = EmptyGraph
    /\ drop = NoDrop
    /\ calls = NoCalls
    /\ docker = NoDocker

Unvalidated == [save |-> {0}, refuse |-> {FALSE}, ops |-> MaxOps]

createNodeTemplateLoose(fs) ==
    \E t \in LooseNodeInputs, fp \in fs.save : create("createNodeTemplate", t, fp, fs)

createStackTemplateLoose(fs) ==
    \E t \in LooseStackInputs, fp \in fs.save : create("createStackTemplate", t, fp, fs)

NextLoose ==
    \/ initialize(Unvalidated) /\ UNCHANGED <<engine, calls, docker>>
    \/ refresh(Unvalidated) /\ UNCHANGED <<engine, calls, docker>>
    \/ createNodeTemplate(Unvalidated) /\ UNCHANGED <<engine, calls, docker>>
    \/ createNodeTemplateLoose(Unvalidated) /\ UNCHANGED <<engine, calls, docker>>
    \/ createStackTemplateLoose(Unvalidated) /\ UNCHANGED <<engine, calls, docker>>
    \/ deleteTemplate(Unvalidated) /\ UNCHANGED <<engine, calls, docker>>

SpecLoose == InitLoose /\ [][NextLoose]_vars

----------------------------------------------------------------------------
(* Stack templates with any configs mapping, created and loaded again.     *)

\* Descriptors handed to createStackTemplate: configs with a key of its own,
\* with the name of the descriptor file as a key (the content is a YAML
\* comment), and without keys.
ConfigsInputs ==
    { [name |-> NameLab, topology |-> "telemetry",
       configs |-> [f \in {"prometheus.yml"} |-> "global:"]],
      [name |-> NameLab, topology |-> "telemetry",
       configs |-> [f \in {DescriptorFile} |-> "# scrape targets"]],
      [name |-> NameSRLinux, topology |-> "pair", configs |-> EmptyFn] }

createStackTemplateConfigs(fs) ==
    \E t \in ConfigsInputs, fp \in fs.save : create("createStackTemplate", t, fp, fs)

NextDurable ==
    \/ initialize(Works) /\ UNCHANGED <<engine, calls, docker>>
    \/ refresh(Works) /\ UNCHANGED <<engine, calls, docker>>
    \/ createNodeTemplate(Works) /\ UNCHANGED <<engine, calls, docker>>
    \/ createStackTemplateConfigs(Works) /\ UNCHANGED <<engine, calls, docker>>

SpecDurable == Init /\ [][NextDurable]_vars

----------------------------------------------------------------------------
(* Overlapping calls.  An async method runs up to its first await when it  *)
(* is called and then yields; what follows an await runs when the awaited  *)
(* promise has settled, after whatever other calls did in the meantime.    *)
(* calls[k] is the k-th call made: the method, where it stands (pc), its   *)
(* locals, and what it met on its way: the calls that had completed when   *)
(* it was made (settled), for a deleteTemplate the loads that held the     *)
(* descriptor of its id, read and not yet inserted, when fs.rm removed the *)
(* directory (readers), for a load the deletes of an id that had completed *)
(* when it inserted the entry of that id (late), for a                      *)
(* createDefaultTemplates the directories of the storage root that held a  *)
(* loadable descriptor when it was called (stored) and the built-in entry  *)
(* it is creating (index, 0 when it has created none).                     *)

Creates == {"createNodeTemplate", "createStackTemplate"}

\* Number of calls in one behaviour of overlapping calls.
MaxOverlapOps == 2

Pending == {k \in DOMAIN calls : calls[k].pc # "done"}

Settled == DOMAIN calls \ Pending

NotRead == [ok |-> FALSE, t |-> EmptyFn]

NewCall(op, pc, id, template, arg) ==
    [op |-> op, pc |-> pc, id |-> id, template |-> template, arg |-> arg,
     ok |-> FALSE, entries |-> {}, reading |-> <<>>, held |-> NotRead,
     settled |-> Settled, readers |-> {}, late |-> {}, index |-> 0, stored |-> {}]

\* A mistaken variant: the id is the slug of the name, whatever the catalog
\* holds.
beginCreateBlind(op, template) ==
    LET id == generateTemplateId(template.name, {})
    IN  /\ nops < MaxOverlapOps
        /\ nops' = nops + 1
        /\ calls' = Append(calls, NewCall(op, "save", id, fullTemplate(template, id),
                                          template))
        /\ UNCHANGED <<templates, disk, ext, last, engine, docker>>

\* createNodeTemplate and createStackTemplate up to `await
\* this.saveTemplate(fullTemplate)`: the id is generated from the catalog as
\* it is when the call is made.
beginCreate(op, template) ==
    LET id == generateTemplateId(template.name, DOMAIN templates)
    IN  /\ nops < MaxOverlapOps
        /\ nops' = nops + 1
        /\ calls' = Append(calls, NewCall(op, "save", id, fullTemplate(template, id),
                                          template))
        /\ UNCHANGED <<templates, disk, ext, last, engine, docker>>

beginCreateNodeTemplate == \E t \in NodeInputs : beginCreate("createNodeTemplate", t)

beginCreateStackTemplate == \E t \in StackInputs : beginCreate("createStackTemplate", t)

\* The awaited saveTemplate of call k; when it throws the call rejects.
saveCreate(k) ==
    LET c    == calls[k]
        save == saveTemplate(disk, c.template, 0)
    IN  /\ c.op \in Creates /\ c.pc = "save"
        /\ disk' = save.disk
        /\ IF save.ok
           THEN /\ calls' = [calls EXCEPT ![k].pc = "set"]
                /\ UNCHANGED last
           ELSE /\ calls' = [calls EXCEPT ![k].pc = "done"]
                /\ last' = Call(c.op, c.id, "", c.arg, FALSE, FsError, EmptyFn)
        /\ UNCHANGED <<templates, ext, nops, engine, docker>>

\* this.templates.set(id, fullTemplate); return fullTemplate
setCreate(k) ==
    LET c == calls[k]
    IN  /\ c.op \in Creates /\ c.pc = "set"
        /\ templates' = Put(templates, c.id, c.template)
        /\ calls' = [calls EXCEPT ![k].pc = "done", ![k].ok = TRUE]
        /\ last' = Call(c.op, c.id, "", c.arg, TRUE, NoError, c.template)
        /\ UNCHANGED <<disk, ext, nops, engine, docker>>

\* refresh(), that is loadTemplates(), up to `await fs.readdir`: the map is
\* cleared when the call is made.
beginLoad ==
    /\ nops < MaxOverlapOps
    /\ nops' = nops + 1
    /\ templates' = EmptyFn
    /\ calls' = Append(calls, NewCall("refresh", "readdir", <<>>, EmptyFn, EmptyFn))
    /\ UNCHANGED <<disk, ext, last, engine, docker>>

\* The result of `await fs.readdir`: the directories of the storage root as
\* they are now.  The loop is over when there is none (left).
EndLoop(c) == IF c.entries = {} THEN [c EXCEPT !.pc = "done", !.ok = TRUE] ELSE c

readdirLoad(k) ==
    LET c == calls[k]
        entries == {n \in DOMAIN disk : disk[n].isDir}
    IN  /\ c.op = "refresh" /\ c.pc = "readdir"
        /\ calls' = [calls EXCEPT ![k] = EndLoop([c EXCEPT !.pc = "read",
                                                           !.entries = entries])]
        /\ last' = IF entries = {}
                   THEN Call("refresh", <<>>, "", EmptyFn, TRUE, NoError, EmptyFn)
                   ELSE last
        /\ UNCHANGED <<templates, disk, ext, nops, engine, docker>>

\* loadTemplate(templatePath) of the next entry, in whatever order readdir
\* gave them: what fs.readFile reads from the disk as it is now, parsed.
readLoad(k) ==
    LET c == calls[k]
    IN  /\ c.op = "refresh" /\ c.pc = "read"
        /\ \E n \in c.entries :
              calls' = [calls EXCEPT
                          ![k].pc = "set",
                          ![k].entries = @ \ {n},
                          ![k].reading = n,
                          ![k].held = IF n \in DOMAIN disk /\ disk[n].isDir
                                      THEN loadTemplate(disk, n) ELSE NotRead]
        /\ UNCHANGED <<templates, disk, ext, last, nops, engine, docker>>

DeletesOf(id) == {d \in Settled : calls[d].op = "deleteTemplate" /\ calls[d].id = id}

\* if (template) this.templates.set(template.id, template), and the next
\* turn of the loop.
setLoad(k) ==
    LET c    == calls[k]
        next == EndLoop([c EXCEPT !.pc = "read", !.held = NotRead,
                                  !.late = IF c.held.ok
                                           THEN @ \cup DeletesOf(c.reading) ELSE @])
    IN  /\ c.op = "refresh" /\ c.pc = "set"
        /\ templates' = IF c.held.ok THEN Put(templates, c.reading, c.held.t)
                        ELSE templates
        /\ calls' = [calls EXCEPT ![k] = next]
        /\ last' = IF next.pc = "done"
                   THEN Call("refresh", <<>>, "", EmptyFn, TRUE, NoError, EmptyFn)
                   ELSE last
        /\ UNCHANGED <<disk, ext, nops, engine, docker>>

\* deleteTemplate(id) up to `await fs.rm`.
beginDelete ==
    /\ nops < MaxOverlapOps
    /\ nops' = nops + 1
    /\ \E id \in IdArgs :
          calls' = Append(calls, NewCall("deleteTemplate", "rm", id, EmptyFn, EmptyFn))
    /\ UNCHANGED <<templates, disk, ext, last, engine, docker>>

\* The loads that hold the descriptor of id: read, not yet inserted.
ReadersOf(id) ==
    {j \in Pending : /\ calls[j].op = "refresh" /\ calls[j].pc = "set"
                     /\ calls[j].reading = id /\ calls[j].held.ok}

\* fs.rm(templatePath, { recursive: true, force: true }) removes the
\* directory.
rmDelete(k) ==
    LET c == calls[k]
    IN  /\ c.op = "deleteTemplate" /\ c.pc = "rm"
        /\ disk' = IF c.id = <<>> THEN EmptyFn ELSE Drop(disk, c.id)
        /\ calls' = [calls EXCEPT ![k].pc = "then", ![k].readers = ReadersOf(c.id)]
        /\ UNCHANGED <<templates, ext, last, nops, engine, docker>>

\* A mistaken variant: the entry stays in the map.
thenDeleteKeeping(k) ==
    LET c == calls[k]
    IN  /\ c.op = "deleteTemplate" /\ c.pc = "then"
        /\ calls' = [calls EXCEPT ![k].pc = "done", ![k].ok = TRUE]
        /\ last' = Call("deleteTemplate", c.id, "", EmptyFn, TRUE, NoError, EmptyFn)
        /\ UNCHANGED <<templates, disk, ext, nops, engine, docker>>

\* this.templates.delete(id), once fs.rm has resolved.
thenDelete(k) ==
    LET c == calls[k]
    IN  /\ c.op = "deleteTemplate" /\ c.pc = "then"
        /\ templates' = Drop(templates, c.id)
        /\ calls' = [calls EXCEPT ![k].pc = "done", ![k].ok = TRUE]
        /\ last' = Call("deleteTemplate", c.id, "", EmptyFn, TRUE, NoError, EmptyFn)
        /\ UNCHANGED <<disk, ext, nops, engine, docker>>

NextOverlap ==
    \/ beginCreateNodeTemplate
    \/ beginCreateStackTemplate
    \/ \E k \in DOMAIN calls : saveCreate(k)
    \/ \E k \in DOMAIN calls : setCreate(k)
    \/ beginLoad
    \/ \E k \in DOMAIN calls : readdirLoad(k)
    \/ \E k \in DOMAIN calls : readLoad(k)
    \/ \E k \in DOMAIN calls : setLoad(k)
    \/ beginDelete
    \/ \E k \in DOMAIN calls : rmDelete(k)
    \/ \E k \in DOMAIN calls : thenDelete(k)

SpecOverlap == Init /\ [][NextOverlap]_vars

\* The store when `await this.templateManager.initialize()` has completed:
\* the catalog holds what the storage root holds.
InitLoaded ==
    /\ disk \in InitDisks
    /\ templates = LoadedCatalog(disk)
    /\ ext = EmptyFn
    /\ last = [op |-> "initialize", id |-> <<>>, path |-> "", arg |-> EmptyFn,
               ok |-> TRUE, err |-> NoError, ret |-> EmptyFn, prev |-> "none"]
    /\ nops = 0
    /\ cy = EmptyGraph
    /\ drop = NoDrop
    /\ calls = NoCalls
    /\ docker = NoDocker

\* The create of the built-in entry i, up to its await of saveTemplate, in
\* the call c with the catalog t.
SeedEntry(c, i, t) ==
    LET id == generateTemplateId(defaultTemplates[i].name, DOMAIN t)
    IN  [c EXCEPT !.pc = "save", !.index = i, !.id = id,
                  !.template = fullTemplate(defaultTemplates[i], id),
                  !.arg = defaultTemplates[i]]

SeedDone(c, ok) == [c EXCEPT !.pc = "done", !.ok = ok]

\* createDefaultTemplates() up to its first await: it returns when the map
\* holds an entry, and calls the create of the first built-in entry when the
\* map is empty.
beginSeed ==
    LET c == [NewCall("createDefaultTemplates", "save", <<>>, EmptyFn, EmptyFn)
                 EXCEPT !.stored = DOMAIN LoadedCatalog(disk)]
        none == Cardinality(DOMAIN templates) = 0
    IN  /\ nops < MaxOverlapOps
        /\ nops' = nops + 1
        /\ calls' = Append(calls, IF none THEN SeedEntry(c, 1, templates)
                                  ELSE SeedDone(c, TRUE))
        /\ last' = IF none THEN last
                   ELSE Call("createDefaultTemplates", <<>>, "", EmptyFn, TRUE,
                             NoError, EmptyFn)
        /\ UNCHANGED <<templates, disk, ext, engine, docker>>

\* The awaited saveTemplate of the create the call k is in; when it throws,
\* the create and the call reject.
saveSeed(k) ==
    LET c    == calls[k]
        save == saveTemplate(disk, c.template, 0)
    IN  /\ c.op = "createDefaultTemplates" /\ c.pc = "save"
        /\ disk' = save.disk
        /\ IF save.ok
           THEN /\ calls' = [calls EXCEPT ![k].pc = "set"]
                /\ UNCHANGED last
           ELSE /\ calls' = [calls EXCEPT ![k] = SeedDone(c, FALSE)]
                /\ last' = Call("createDefaultTemplates", <<>>, "", EmptyFn, FALSE,
                                FsError, EmptyFn)
        /\ UNCHANGED <<templates, ext, nops, engine, docker>>

\* this.templates.set(id, fullTemplate) of that create, and the next turn of
\* the loop over defaultTemplates.
setSeed(k) ==
    LET c    == calls[k]
        t    == Put(templates, c.id, c.template)
        more == c.index < Len(defaultTemplates)
    IN  /\ c.op = "createDefaultTemplates" /\ c.pc = "set"
        /\ templates' = t
        /\ calls' = [calls EXCEPT ![k] = IF more THEN SeedEntry(c, c.index + 1, t)
                                         ELSE SeedDone(c, TRUE)]
        /\ last' = IF more THEN last
                   ELSE Call("createDefaultTemplates", <<>>, "", EmptyFn, TRUE,
                             NoError, EmptyFn)
        /\ UNCHANGED <<disk, ext, nops, engine, docker>>

\* createDefaultTemplates and refresh, overlapping, on a store that has been
\* initialized.
NextSeedOverlap ==
    \/ beginSeed
    \/ \E k \in DOMAIN calls : saveSeed(k)
    \/ \E k \in DOMAIN calls : setSeed(k)
    \/ beginLoad
    \/ \E k \in DOMAIN calls : readdirLoad(k)
    \/ \E k \in DOMAIN calls : readLoad(k)
    \/ \E k \in DOMAIN calls : setLoad(k)

SpecSeedOverlap == InitLoaded /\ [][NextSeedOverlap]_vars

----------------------------------------------------------------------------
(* The cache of docker images and the tree that shows it.  Repositories,   *)
(* tags, kinds and filter texts are sequences of one-character strings, so *)
(* that String.prototype.includes is computed as the code computes it.     *)

\* Number of calls of the image provider and of the tree in one behaviour.
MaxImageCalls == 3

\* s.includes(sub)
includes(s, sub) ==
    \E i \in 1..(Len(s) + 1) :
        /\ i + Len(sub) - 1 <= Len(s)
        /\ SubSeq(s, i, i + Len(sub) - 1) = sub

\* private readonly knownImages, as Object.entries gives it.
knownImages ==
    <<       [kind |-> <<"n","o","k","i","a","_","s","r","l","i","n","u","x">>,
        patterns |-> << <<"g","h","c","r",".","i","o","/","n","o","k","i","a","/","s","r","l","i","n","u","x">>,
                      <<"s","r","l","i","n","u","x">>,
                      <<"n","o","k","i","a","/","s","r","l","i","n","u","x">> >>],
       [kind |-> <<"n","o","k","i","a","_","s","r","o","s">>,
        patterns |-> << <<"v","r","-","s","r","o","s">>,
                      <<"n","o","k","i","a","/","s","r","o","s">>,
                      <<"v","r","n","e","t","l","a","b","/","v","r","-","s","r","o","s">> >>],
       [kind |-> <<"n","o","k","i","a","_","s","r","s","i","m">>,
        patterns |-> << <<"g","h","c","r",".","i","o","/","n","o","k","i","a","/","s","r","s","i","m">>,
                      <<"s","r","s","i","m">>,
                      <<"n","o","k","i","a","/","s","r","s","i","m">> >>],
       [kind |-> <<"c","i","s","c","o","_","x","r","d">>,
        patterns |-> << <<"i","o","s","-","x","r">>,
                      <<"x","r","d">>,
                      <<"c","i","s","c","o","/","x","r","d">>,
                      <<"c","i","s","c","o","-","x","r","d">> >>],
       [kind |-> <<"c","i","s","c","o","_","x","r","v">>,
        patterns |-> << <<"x","r","v">>,
                      <<"v","r","-","x","r","v">>,
                      <<"v","r","n","e","t","l","a","b","/","v","r","-","x","r","v">> >>],
       [kind |-> <<"c","i","s","c","o","_","x","r","v","9","k">>,
        patterns |-> << <<"x","r","v","9","k">>,
                      <<"v","r","-","x","r","v","9","k">>,
                      <<"v","r","n","e","t","l","a","b","/","v","r","-","x","r","v","9","k">> >>],
       [kind |-> <<"c","i","s","c","o","_","i","o","s","x","r">>,
        patterns |-> << <<"i","o","s","x","r">>,
                      <<"c","i","s","c","o","/","i","o","s","x","r">> >>],
       [kind |-> <<"c","i","s","c","o","_","c","s","r","1","0","0","0","v">>,
        patterns |-> << <<"c","s","r","1","0","0","0","v">>,
                      <<"v","r","-","c","s","r">>,
                      <<"v","r","n","e","t","l","a","b","/","v","r","-","c","s","r">> >>],
       [kind |-> <<"c","i","s","c","o","_","c","8","0","0","0","v">>,
        patterns |-> << <<"c","8","0","0","0","v">>,
                      <<"c","i","s","c","o","/","c","8","0","0","0","v">> >>],
       [kind |-> <<"c","i","s","c","o","_","c","a","t","9","k","v">>,
        patterns |-> << <<"c","a","t","9","k","v">>,
                      <<"c","i","s","c","o","/","c","a","t","9","k","v">> >>],
       [kind |-> <<"a","r","i","s","t","a","_","c","e","o","s">>,
        patterns |-> << <<"c","e","o","s">>,
                      <<"a","r","i","s","t","a","/","c","e","o","s">>,
                      <<"c","e","o","s","i","m","a","g","e">>,
                      <<"a","r","i","s","t","a","/","c","e","o","s","i","m","a","g","e">> >>],
       [kind |-> <<"a","r","i","s","t","a","_","v","e","o","s">>,
        patterns |-> << <<"v","e","o","s">>,
                      <<"a","r","i","s","t","a","/","v","e","o","s">>,
                      <<"v","r","n","e","t","l","a","b","/","v","r","-","v","e","o","s">> >>],
       [kind |-> <<"j","u","n","i","p","e","r","_","v","m","x">>,
        patterns |-> << <<"v","m","x">>,
                      <<"j","u","n","i","p","e","r","/","v","m","x">>,
                      <<"v","r","n","e","t","l","a","b","/","v","r","-","v","m","x">> >>],
       [kind |-> <<"j","u","n","i","p","e","r","_","v","q","f","x">>,
        patterns |-> << <<"v","q","f","x">>,
                      <<"j","u","n","i","p","e","r","/","v","q","f","x">>,
                      <<"v","r","n","e","t","l","a","b","/","v","r","-","v","q","f","x">> >>],
       [kind |-> <<"j","u","n","i","p","e","r","_","v","j","u","n","o","s">>,
        patterns |-> << <<"v","j","u","n","o","s","-","s","w","i","t","c","h">>,
                      <<"j","u","n","i","p","e","r","/","v","j","u","n","o","s">>,
                      <<"v","j","u","n","o","s","-","r","o","u","t","e","r">> >>],
       [kind |-> <<"c","u","m","u","l","u","s","_","c","v","x">>,
        patterns |-> << <<"c","u","m","u","l","u","s","-","v","x">>,
                      <<"c","u","m","u","l","u","s","n","e","t","w","o","r","k","s","/","c","u","m","u","l","u","s","-","v","x">> >>],
       [kind |-> <<"s","o","n","i","c">>,
        patterns |-> << <<"d","o","c","k","e","r","-","s","o","n","i","c","-","p","4">>,
                      <<"d","o","c","k","e","r","-","s","o","n","i","c","-","v","s">>,
                      <<"a","z","u","r","e","/","s","o","n","i","c">> >>],
       [kind |-> <<"k","e","y","s","i","g","h","t","_","i","x","i","a">>,
        patterns |-> << <<"i","x","i","a">>,
                      <<"k","e","y","s","i","g","h","t","/","i","x","i","a","-","c">> >>],
       [kind |-> <<"f","o","r","t","i","n","e","t","_","f","o","r","t","i","g","a","t","e">>,
        patterns |-> << <<"f","o","r","t","i","g","a","t","e">>,
                      <<"f","o","r","t","i","n","e","t","/","f","o","r","t","i","g","a","t","e">> >>],
       [kind |-> <<"p","a","l","o","a","l","t","o","_","p","a","n","o","s">>,
        patterns |-> << <<"p","a","n","o","s">>,
                      <<"p","a","l","o","a","l","t","o","n","e","t","w","o","r","k","s","/","p","a","n","o","s">> >>],
       [kind |-> <<"c","h","e","c","k","p","o","i","n","t","_","c","l","o","u","d","g","u","a","r","d">>,
        patterns |-> << <<"c","l","o","u","d","g","u","a","r","d">>,
                      <<"c","h","e","c","k","p","o","i","n","t","/","c","l","o","u","d","g","u","a","r","d">> >>],
       [kind |-> <<"v","y","o","s">>,
        patterns |-> << <<"v","y","o","s","/","v","y","o","s">>,
                      <<"v","y","o","s","/","v","y","o","s","-","b","u","i","l","d">> >>],
       [kind |-> <<"m","i","k","r","o","t","i","k","_","r","o","s">>,
        patterns |-> << <<"m","i","k","r","o","t","i","k">>,
                      <<"v","r","n","e","t","l","a","b","/","v","r","-","r","o","u","t","e","r","o","s">> >>],
       [kind |-> <<"o","p","e","n","b","s","d">>,
        patterns |-> << <<"o","p","e","n","b","s","d">>,
                      <<"v","r","n","e","t","l","a","b","/","v","r","-","o","p","e","n","b","s","d">> >>],
       [kind |-> <<"l","i","n","u","x">>,
        patterns |-> << <<"a","l","p","i","n","e">>,
                      <<"u","b","u","n","t","u">>,
                      <<"d","e","b","i","a","n">>,
                      <<"c","e","n","t","o","s">>,
                      <<"f","e","d","o","r","a">>,
                      <<"r","o","c","k","y">>,
                      <<"a","l","m","a">> >>],
       [kind |-> <<"k","8","s","_","k","i","n","d">>,
        patterns |-> << <<"k","i","n","d","e","s","t","/","n","o","d","e">> >>],
       [kind |-> <<"f","r","r">>,
        patterns |-> << <<"f","r","r","o","u","t","i","n","g","/","f","r","r">>,
                      <<"f","r","r">> >>],
       [kind |-> <<"g","o","b","g","p">>,
        patterns |-> << <<"g","o","b","g","p">>,
                      <<"o","s","r","g","/","g","o","b","g","p">> >>],
       [kind |-> <<"b","i","r","d">>,
        patterns |-> << <<"b","i","r","d">>,
                      <<"o","s","r","g","/","b","i","r","d">> >>],
       [kind |-> <<"q","u","a","g","g","a">>,
        patterns |-> << <<"q","u","a","g","g","a">>,
                      <<"o","s","r","g","/","q","u","a","g","g","a">> >>],
       [kind |-> <<"t","e","l","e","m","e","t","r","y">>,
        patterns |-> << <<"g","r","a","f","a","n","a","/","g","r","a","f","a","n","a">>,
                      <<"p","r","o","m","e","t","h","e","u","s">>,
                      <<"t","e","l","e","g","r","a","f">>,
                      <<"i","n","f","l","u","x","d","b">>,
                      <<"a","l","l","o","y">>,
                      <<"o","t","e","l">> >>] >>

\* private readonly excludePatterns
excludePatterns ==
    << <<"h","e","l","l","o","-","w","o","r","l","d">>,
       <<"t","e","s","t">>,
       <<"e","x","a","m","p","l","e">>,
       <<"d","e","m","o">>,
       <<"t","u","t","o","r","i","a","l">>,
       <<"s","a","m","p","l","e">>,
       <<"t","m","p">>,
       <<"t","e","m","p">> >>

\* The words the code looks for in a name, and the kind of an image no
\* pattern matches.
Clab == <<"c","l","a","b">>

Containerlab == <<"c","o","n","t","a","i","n","e","r","l","a","b">>

Custom == <<"c","u","s","t","o","m">>

GhcrIo == <<"g","h","c","r",".","i","o">>

DockerIo == <<"d","o","c","k","e","r",".","i","o">>

QuayIo == <<"q","u","a","y",".","i","o">>


\* `${image.repository}:${image.tag}`.toLowerCase()
fullName(image) == toLowerCase(image.repository \o <<":">> \o image.tag)

\* The name includes a pattern of the entry k of knownImages.
MatchesKind(name, k) ==
    \E p \in 1..Len(knownImages[k].patterns) :
        includes(name, toLowerCase(knownImages[k].patterns[p]))

\* private isContainerlabImage(image)
isContainerlabImage(image) ==
    LET name == fullName(image)
    IN  IF \E i \in 1..Len(excludePatterns) : includes(name, excludePatterns[i])
        THEN FALSE
        ELSE \/ \E k \in 1..Len(knownImages) : MatchesKind(name, k)
             \/ includes(name, Clab)
             \/ includes(name, Containerlab)

\* private categorizeImage(image): the kind of the first entry of
\* knownImages one of whose patterns the name includes, or 'custom'.
categorizeImage(image) ==
    LET name  == fullName(image)
        hits  == {k \in 1..Len(knownImages) : MatchesKind(name, k)}
        first == CHOOSE k \in hits : \A j \in hits : k <= j
    IN  [repository |-> image.repository, tag |-> image.tag, id |-> image.id,
         size |-> image.size, created |-> image.created,
         kind |-> IF hits = {} THEN Custom ELSE knownImages[first].kind,
         isOfficial |-> /\ hits # {}
                        /\ \/ includes(name, GhcrIo)
                           \/ includes(name, DockerIo)
                           \/ includes(name, QuayIo)
                           \/ ~includes(name, <<"/">>)]

\* s.filter(Keep) and s.map(F)
Filter(s, Keep(_)) == SelectSeq(s, Keep)

Map(s, F(_)) == [i \in 1..Len(s) |-> F(s[i])]

\* The images docker lists (docker images --format ...).
ImgSrlinuxLatest ==
    [repository |-> <<"g","h","c","r",".","i","o","/","n","o","k","i","a","/","s","r","l","i","n","u","x">>,
     tag |-> <<"l","a","t","e","s","t">>,
     id |-> "a1", size |-> "2.5GB", created |-> "2 weeks ago"]

ImgSrlinuxPinned ==
    [repository |-> <<"g","h","c","r",".","i","o","/","n","o","k","i","a","/","s","r","l","i","n","u","x">>,
     tag |-> <<"2","4",".","1","0",".","1">>,
     id |-> "a2", size |-> "2.5GB", created |-> "3 months ago"]

ImgAlpine ==
    [repository |-> <<"a","l","p","i","n","e">>,
     tag |-> <<"3",".","1","9">>,
     id |-> "a3", size |-> "7MB", created |-> "5 months ago"]

ImgHelloWorld ==
    [repository |-> <<"h","e","l","l","o","-","w","o","r","l","d">>,
     tag |-> <<"l","i","n","u","x">>,
     id |-> "a4", size |-> "13kB", created |-> "1 year ago"]

ImgNginx ==
    [repository |-> <<"n","g","i","n","x">>,
     tag |-> <<"1",".","2","7">>,
     id |-> "a5", size |-> "190MB", created |-> "1 month ago"]

ImgCeos ==
    [repository |-> <<"c","e","o","s">>,
     tag |-> <<"4",".","3","2",".","0","F">>,
     id |-> "a6", size |-> "2GB", created |-> "6 months ago"]

ImgClabTools ==
    [repository |-> <<"a","c","m","e","/","c","l","a","b","-","t","o","o","l","s">>,
     tag |-> <<"1",".","0">>,
     id |-> "a7", size |-> "80MB", created |-> "4 days ago"]

\* What docker lists at one time or another.
Listings ==
    { <<ImgSrlinuxLatest, ImgSrlinuxPinned, ImgAlpine, ImgHelloWorld, ImgNginx>>,
      <<ImgClabTools, ImgCeos, ImgAlpine>> }

\* What refreshImages assigns to this.images when docker has listed the
\* images allImages (one DockerImage for each line of the output), for each
\* of the listings.
Refreshed ==
    [allImages \in Listings |->
        Map(Filter(allImages, isContainerlabImage), categorizeImage)]

refreshImages(allImages) == Refreshed[allImages]

\* The results of execAsync('docker images ...'): it rejects, or it resolves
\* with a listing.
DockerResults ==
    {[ok |-> FALSE, stdout |-> <<>>]} \cup {[ok |-> TRUE, stdout |-> l] : l \in Listings}

\* The time that passes before a call: none, or the refresh interval.
Delays == {0, refreshInterval}

\* A mistaken variant: lastRefresh is set whether the refresh failed or not.
GetImagesStamping(d, forceRefresh, dt, result) ==
    LET now    == d.now + dt
        cached == /\ ~forceRefresh /\ Len(d.images) > 0
                  /\ now - d.lastRefresh < refreshInterval
        images == IF cached \/ ~result.ok THEN d.images
                  ELSE refreshImages(result.stdout)
    IN  [d EXCEPT !.now = now, !.n = @ + 1,
                  !.images = images,
                  !.lastRefresh = IF cached THEN @ ELSE now,
                  !.out = [forceRefresh |-> forceRefresh, invoked |-> ~cached,
                           failed |-> ~cached /\ ~result.ok,
                           listed |-> IF cached \/ ~result.ok THEN <<>>
                                      ELSE result.stdout,
                           ret |-> images, before |-> d.images,
                           lastBefore |-> d.lastRefresh]]

\* getImages(forceRefresh), called dt after the call before it, with docker
\* answering result when it is invoked: the provider afterwards.  images is
\* assigned when the listing has succeeded, and lastRefresh after that.
GetImages(d, forceRefresh, dt, result) ==
    LET now    == d.now + dt
        cached == /\ ~forceRefresh /\ Len(d.images) > 0
                  /\ now - d.lastRefresh < refreshInterval
        images == IF cached \/ ~result.ok THEN d.images
                  ELSE refreshImages(result.stdout)
    IN  [d EXCEPT !.now = now, !.n = @ + 1,
                  !.images = images,
                  !.lastRefresh = IF cached \/ ~result.ok THEN @ ELSE now,
                  !.out = [forceRefresh |-> forceRefresh, invoked |-> ~cached,
                           failed |-> ~cached /\ ~result.ok,
                           listed |-> IF cached \/ ~result.ok THEN <<>>
                                      ELSE result.stdout,
                           ret |-> images, before |-> d.images,
                           lastBefore |-> d.lastRefresh]]

getImages ==
    /\ docker.n < MaxImageCalls
    /\ \E forceRefresh \in BOOLEAN, dt \in Delays, result \in DockerResults :
          docker' = [GetImages(docker, forceRefresh, dt, result) EXCEPT !.op = "getImages"]
    /\ UNCHANGED <<store, engine>>

\* The texts typed into the filter input.
FilterLinux == <<"l","i","n","u","x">>

FilterSrl == <<"S","R","L">>

Filters == {<<>>, FilterLinux, FilterSrl}

\* setFilter(filter)
setFilter ==
    /\ docker.n < MaxImageCalls
    /\ \E filter \in Filters :
          docker' = [docker EXCEPT !.filterText = toLowerCase(filter),
                                   !.n = @ + 1, !.op = "setFilter"]
    /\ UNCHANGED <<store, engine>>

\* The characters of the names in the order of their UTF-16 code units (the
\* order of Array.prototype.sort()), and in the order localeCompare gives
\* the characters of a repository (punctuation, digits, letters).
CodeUnits ==
    <<"-", ".", "/">> \o DigitChars \o <<":">> \o UpperChars \o <<"_">> \o LowerChars

Collation == <<"_", "-", ":", ".", "/">> \o DigitChars \o LowerChars

Rank(order, c) == CHOOSE i \in 1..Len(order) : order[i] = c

\* a comes before b, character by character in the order given.
Before(a, b, order) ==
    \E k \in 1..(Len(a) + 1) :
        /\ k <= Len(b)
        /\ SubSeq(a, 1, k - 1) = SubSeq(b, 1, k - 1)
        /\ k = Len(a) + 1 \/ Rank(order, a[k]) < Rank(order, b[k])

\* Array.from(kindGroups.keys()).sort()
SortedKinds(kinds) ==
    [k \in 1..Cardinality(kinds) |->
        CHOOSE x \in kinds : Cardinality({y \in kinds : Before(y, x, CodeUnits)}) = k - 1]

\* The comparison of the sort of a kind's images: official images first,
\* then by repository.
OfficialFirst(a, b) ==
    \/ a.isOfficial /\ ~b.isOfficial
    \/ a.isOfficial = b.isOfficial /\ Before(a.repository, b.repository, Collation)

\* s.sort(compare), which is stable.
Sort(s, Less(_, _)) ==
    LET pos(i) == 1 + Cardinality({j \in 1..Len(s) :
                        Less(s[j], s[i]) \/ (~Less(s[i], s[j]) /\ j < i)})
    IN  [k \in 1..Len(s) |-> s[CHOOSE i \in 1..Len(s) : pos(i) = k]]

\* The filter of getChildren at the root: repository, tag or kind includes
\* the filter text; no filter text keeps every image.
RootFilter(images, filterText) ==
    IF filterText = <<>> THEN images
    ELSE Filter(images, LAMBDA img :
            \/ includes(toLowerCase(img.repository), filterText)
            \/ includes(toLowerCase(img.tag), filterText)
            \/ includes(toLowerCase(img.kind), filterText))

\* `${kind} (${images.length})`
KindLabel(kind, count) == kind \o <<" ", "(">> \o ToDecimal(count) \o <<")">>

\* getChildren() at the root: one item for each kind of the filtered images,
\* the kinds sorted.
RootItems(images, filterText) ==
    LET filteredImages == RootFilter(images, filterText)
        kinds  == {filteredImages[i].kind : i \in 1..Len(filteredImages)}
        sorted == SortedKinds(kinds)
        group(kind) == Filter(filteredImages, LAMBDA img : img.kind = kind)
    IN  [k \in 1..Len(sorted) |->
            [kind |-> sorted[k], count |-> Len(group(sorted[k])),
             label |-> KindLabel(sorted[k], Len(group(sorted[k])))]]

\* getChildren(element) of a kind category: the images of the kind whose
\* repository or tag includes the filter text, sorted.
KindItems(images, filterText, kind) ==
    Sort(Filter(Filter(images, LAMBDA img : img.kind = kind),
                LAMBDA img : \/ filterText = <<>>
                             \/ includes(toLowerCase(img.repository), filterText)
                             \/ includes(toLowerCase(img.tag), filterText)),
         OfficialFirst)

\* getChildren() without element: getImages() and the kind categories.
getChildrenRoot ==
    /\ docker.n < MaxImageCalls
    /\ \E dt \in Delays, result \in DockerResults :
          LET d == GetImages(docker, FALSE, dt, result)
          IN  docker' = [d EXCEPT !.op = "getChildren",
                                  !.shown = [items |-> RootItems(d.images, d.filterText),
                                             images |-> d.images,
                                             filterText |-> d.filterText]]
    /\ UNCHANGED <<store, engine>>

\* getChildren(element) of a kind category the root has shown: getImages()
\* and the images of the kind.
getChildrenKind ==
    /\ docker.n < MaxImageCalls
    /\ \E e \in 1..Len(docker.shown.items), dt \in Delays, result \in DockerResults :
          LET d    == GetImages(docker, FALSE, dt, result)
              kind == docker.shown.items[e].kind
          IN  docker' = [d EXCEPT !.op = "getChildrenKind",
                                  !.opened = [kind |-> kind,
                                              items |-> KindItems(d.images, d.filterText, kind)]]
    /\ UNCHANGED <<store, engine>>

NextImages ==
    \/ getImages
    \/ setFilter
    \/ getChildrenRoot
    \/ getChildrenKind

SpecImages == Init /\ [][NextImages]_vars

----------------------------------------------------------------------------
(* Properties.                                                             *)

Loads == {"initialize", "refresh"}

\* The slug of a name, stated without the regular expression: every character
\* is lower-cased, a character outside [a-z0-9] becomes '-', and a '-' that
\* stands for a character outside the class is dropped when the character
\* before it is outside the class too.
SlugOf(name) ==
    LET low  == toLowerCase(name)
        keep == {i \in 1..Len(low) : low[i] \in AlnumClass \/ i = 1
                                       \/ low[i - 1] \in AlnumClass}
        pos(k) == CHOOSE i \in keep : Cardinality({j \in keep : j < i}) = k - 1
    IN  [k \in 1..Cardinality(keep) |->
            IF low[pos(k)] \in AlnumClass THEN low[pos(k)] ELSE "-"]

Suffixed(base, k) == base \o <<"-">> \o ToDecimal(k)

\* The id the allocation rule gives a name in a catalog with the given keys.
AllocatedId(name, keys) ==
    LET base == SlugOf(name)
    IN  IF base \notin keys THEN base
        ELSE Suffixed(base, CHOOSE k \in 1..(Cardinality(keys) + 1) :
                              /\ Suffixed(base, k) \notin keys
                              /\ \A j \in 1..(k - 1) : Suffixed(base, j) \in keys)

\* C1: a create call is given the id base when base, the slug of the name,
\* is not a key of the catalog, and otherwise base-k for the smallest k >= 1
\* such that base-k is not a key; the id is never a key the catalog already
\* had, it is the id of the descriptor returned, and two creates of
\* "SR Linux" in an empty catalog get sr-linux and then sr-linux-1.
C1_SlugAllocation ==
    [][last'.op \in Creates =>
        /\ last'.id = AllocatedId(last'.arg.name, DOMAIN templates)
        /\ last'.id \notin DOMAIN templates
        /\ last'.ok => last'.ret.id = last'.id
        /\ (last'.arg.name = NameSRLinux /\ DOMAIN templates = {})
               => last'.id = IdSrLinux
        /\ (last'.arg.name = NameSRLinux /\ DOMAIN templates = {IdSrLinux})
               => last'.id = IdSrLinux1]_vars

\* C1: the second of two templates named "SR Linux" has been created.
C1_Witness ==
    /\ last.op \in Creates /\ last.ok
    /\ last.arg.name = NameSRLinux
    /\ last.id = IdSrLinux1
    /\ DOMAIN templates = {IdSrLinux, IdSrLinux1}

\* C2: every catalog entry stored under key k has id k, and updateTemplate
\* changes no id: the entry under id keeps id, and no storage unit other
\* than that of id is created or written.
C2_IdImmutable ==
    [][/\ \A k \in DOMAIN templates' : templates'[k].id = k
       /\ last'.op = "updateTemplate" =>
             \A n \in DOMAIN disk' :
                 n # last'.id => (n \in DOMAIN disk /\ disk'[n] = disk[n])]_vars

\* The id of the descriptor a call returned.
r_id(call) == call.ret.id

\* C3: after a create has returned r, getTemplate(r.id) is the descriptor
\* handed in plus the id; and a call that is not a load, nor an update or a
\* delete of an id, leaves what getTemplate returns for that id as it was.
C3_CreateGetRoundTrip ==
    [][/\ (last'.op \in Creates /\ last'.ok) =>
             /\ r_id(last') \in DOMAIN templates'
             /\ DOMAIN templates'[r_id(last')] = DOMAIN last'.arg \cup {"id"}
             /\ \A f \in DOMAIN last'.arg :
                    templates'[r_id(last')][f] = last'.arg[f]
             /\ templates'[r_id(last')].id = r_id(last')
       /\ \A k \in DOMAIN templates :
             \/ last'.op \in Loads
             \/ last'.op \in {"updateTemplate", "deleteTemplate"} /\ last'.id = k
             \/ k \in DOMAIN templates' /\ templates'[k] = templates[k]]_vars

\* C3: a created template is still returned unchanged after a later call that
\* is neither a load nor an update or delete of it.
C3_Witness ==
    /\ last.op \in {"updateTemplate", "deleteTemplate", "importTemplate"}
    /\ last.prev \in Creates
    /\ last.id # IdSrLinux
    /\ IdSrLinux \in DOMAIN templates
    /\ templates[IdSrLinux] \in {fullTemplate(t, IdSrLinux) : t \in NodeInputs}

\* The directories of a storage root whose descriptor file exists and is the
\* YAML text of a mapping.
ParsableDirs(d) ==
    {n \in DOMAIN d : /\ d[n].isDir
                      /\ DescriptorFile \in DOMAIN d[n].files
                      /\ d[n].files[DescriptorFile].tag = "yaml"}

\* C4: when a load has completed it has not failed, and the catalog holds
\* one entry for each directory of the storage root whose descriptor can be
\* read and parses, keyed by the directory name and holding the descriptor's
\* fields, and nothing else: a directory whose descriptor is missing or
\* corrupt is skipped and an entry that is no longer on disk is gone.  A
\* root of two valid directories and a corrupt one gives the two valid ones.
C4_PartialCatalogLoad ==
    last.op \in Loads =>
        /\ last.ok
        /\ DOMAIN templates = ParsableDirs(disk)
        /\ \A n \in DOMAIN templates :
              /\ templates[n].id = n
              /\ Rest(templates[n], "id")
                    = Rest(disk[n].files[DescriptorFile].doc, "id")
        /\ disk = SeededDisk => DOMAIN templates = {IdSrLinux, IdLab}

\* C4: a load has skipped a directory and loaded two others.
C4_Witness ==
    /\ last.op \in Loads
    /\ Cardinality(DOMAIN templates) = 2
    /\ \E n \in DOMAIN disk : disk[n].isDir /\ n \notin DOMAIN templates

C6_UpdateUnknown ==
    [][(last'.op = "updateTemplate" /\ last'.id \notin DOMAIN templates) =>
          /\ ~last'.ok
          /\ last'.err.msg = "Template not found" /\ last'.err.names = last'.id
          /\ templates' = templates
          /\ disk' = disk]_vars

\* C6: an update of an unknown id has failed.
C6_Witness ==
    /\ last.op = "updateTemplate" /\ ~last.ok
    /\ last.id \notin DOMAIN templates
    /\ last.err.msg = "Template not found"

\* C7: after updateTemplate(id, patch) of an existing id, in memory every
\* field of the patch has the patch's value and every other field of the
\* previous descriptor is as it was; the descriptor file the call wrote
\* holds the same fields with the same values (id and undefined fields left
\* out); and every other catalog entry is as it was.
C7_UpdateMerges ==
    [][(last'.op = "updateTemplate" /\ last'.ok) =>
          LET id    == last'.id
              patch == last'.arg
              old   == templates[id]
              new   == templates'[id]
              file  == disk'[new.id].files[DescriptorFile]
          IN  /\ DOMAIN new = DOMAIN old \cup DOMAIN patch
              /\ \A f \in DOMAIN patch : new[f] = patch[f]
              /\ \A f \in DOMAIN old \ DOMAIN patch : new[f] = old[f]
              /\ file.tag = "yaml"
              /\ DOMAIN file.doc \subseteq DOMAIN new \ {"id"}
              /\ \A f \in DOMAIN new \ {"id"} :
                    IF IsUndefined(new, f) THEN f \notin DOMAIN file.doc
                    ELSE f \in DOMAIN file.doc /\ file.doc[f] = new[f]
              /\ DOMAIN templates' = DOMAIN templates
              /\ \A k \in DOMAIN templates \ {id} : templates'[k] = templates[k]]_vars

\* C7: a loaded template with a field this version does not know has been
\* updated, and the field is still there in memory and in the file.
C7_Witness ==
    /\ last.op = "updateTemplate" /\ last.ok /\ last.id = IdSrLinux
    /\ last.arg = [description |-> "edited"]
    /\ templates[IdSrLinux].vendor = "nokia"
    /\ templates[IdSrLinux].description = "edited"
    /\ disk[IdSrLinux].files[DescriptorFile].doc.vendor = "nokia"
    /\ IdLab \in DOMAIN templates

\* C8: when deleteTemplate(id) succeeds, neither the catalog nor the storage
\* root contains id afterwards; when the removal fails, the call fails with
\* an error that names the id and the catalog is as it was.
C8_Delete ==
    [][last'.op = "deleteTemplate" =>
          IF last'.ok
          THEN last'.id \notin DOMAIN templates' /\ last'.id \notin DOMAIN disk'
          ELSE /\ last'.err.msg = "Failed to delete template"
               /\ last'.err.names = last'.id
               /\ templates' = templates]_vars

\* C8: a removal has failed and the entry is still in the catalog.
C8_Witness ==
    /\ last.op = "deleteTemplate" /\ ~last.ok
    /\ last.id \in DOMAIN templates
    /\ last.id \in DOMAIN disk

\* C9: deleteTemplate of an id that is neither in the catalog nor in the
\* storage root fails with the not-found error.
C9_DeleteUnknown ==
    [][(/\ last'.op = "deleteTemplate"
        /\ last'.id \notin DOMAIN templates
        /\ last'.id \notin DOMAIN disk) =>
          ~last'.ok /\ last'.err.msg = "Template not found"]_vars

\* The fields of a descriptor other than id and name, those that hold a value.
OtherFields(t) == Defined(Rest(Rest(t, "id"), "name"))

\* C10: exportTemplate leaves the catalog and the storage root as they were;
\* and importTemplate(p) directly after exportTemplate(i, p) of a template i
\* of the catalog returns a template whose id is not i nor any key the
\* catalog had, whose name is the name given (that of i when none is given)
\* and whose other fields are those of i.
C10_ExportImportRoundTrip ==
    [][/\ last'.op = "exportTemplate" => (templates' = templates /\ disk' = disk)
       /\ (/\ last.op = "exportTemplate" /\ last.ok
           /\ last.id \in DOMAIN templates
           /\ last'.op = "importTemplate" /\ last'.path = last.path) =>
             /\ last'.ok
             /\ r_id(last') # last.id
             /\ r_id(last') \notin DOMAIN templates
             /\ templates'[r_id(last')] = last'.ret
             /\ last'.ret.name = IF last'.arg.name # <<>> THEN last'.arg.name
                                 ELSE templates[last.id].name
             /\ OtherFields(last'.ret) = OtherFields(templates[last.id])]_vars

\* C11: createDefaultTemplates called on a catalog that holds at least one
\* template resolves and leaves the catalog and the storage root as they
\* were; so a call that follows a call that resolved changes nothing.
C11_SeedNoOp ==
    [][last'.op = "createDefaultTemplates" =>
          /\ DOMAIN templates # {} =>
                (last'.ok /\ templates' = templates /\ disk' = disk)
          /\ (last.op = "createDefaultTemplates" /\ last.ok) =>
                (last'.ok /\ templates' = templates /\ disk' = disk)]_vars

\* C11: the built-in catalog was seeded and createDefaultTemplates has been
\* called again.
C11_Witness ==
    /\ last.op = "createDefaultTemplates" /\ last.ok
    /\ last.prev = "createDefaultTemplates"
    /\ Cardinality(DOMAIN templates) = Len(defaultTemplates)

\* The part of an endpoint string before its first colon.
NodeKeyOf(e) ==
    LET colons == {i \in 1..Len(e) : e[i] = ":"}
    IN  IF colons = {} THEN e
        ELSE SubSeq(e, 1, (CHOOSE i \in colons : \A j \in colons : i <= j) - 1)

BuiltInIds == {IdSrLinux, IdAristaCeos, IdLinuxHost, IdTelemetryStack}

\* C12: createDefaultTemplates that resolves after initialize on an empty
\* storage root leaves a catalog with exactly the ids sr-linux, arista-ceos,
\* linux-host and telemetry-stack, every entry with the id of its key and a
\* storage unit whose descriptor holds the entry's fields; the first three
\* are node templates, the last is a stack with at least one link, and both
\* endpoints of each of its links name a node key of the stack.
C12_SeedEmptyStore ==
    [][(/\ last.op = "initialize" /\ disk = EmptyFn
        /\ last'.op = "createDefaultTemplates" /\ last'.ok) =>
          /\ DOMAIN templates' = BuiltInIds
          /\ \A id \in BuiltInIds :
                /\ templates'[id].id = id
                /\ id \in DOMAIN disk' /\ disk'[id].isDir
                /\ DescriptorFile \in DOMAIN disk'[id].files
                /\ disk'[id].files[DescriptorFile] = YamlText(Rest(templates'[id], "id"))
          /\ templates'[IdSrLinux].name = NameSRLinux
          /\ templates'[IdAristaCeos].name = NameAristaCEOS
          /\ templates'[IdLinuxHost].name = NameLinuxHost
          /\ templates'[IdTelemetryStack].name = NameTelemetryStack
          /\ \A id \in BuiltInIds \ {IdTelemetryStack} :
                "kind" \in DOMAIN templates'[id] /\ "topology" \notin DOMAIN templates'[id]
          /\ LET topology == templates'[IdTelemetryStack].topology
                 keys == {topology.nodes[i].key : i \in 1..Len(topology.nodes)}
             IN  /\ "kind" \notin DOMAIN templates'[IdTelemetryStack]
                 /\ Len(topology.links) >= 1
                 /\ \A i \in 1..Len(topology.links) :
                       /\ Len(topology.links[i].endpoints) = 2
                       /\ \A j \in 1..2 :
                             NodeKeyOf(topology.links[i].endpoints[j]) \in keys]_vars

\* C12: the built-in catalog has been seeded into an empty storage root, the
\* configuration files of the stack written next to its descriptor.
C12_Witness ==
    /\ last.op = "createDefaultTemplates" /\ last.ok /\ last.prev = "initialize"
    /\ DOMAIN templates = BuiltInIds
    /\ DOMAIN disk = BuiltInIds
    /\ DOMAIN disk[IdTelemetryStack].files =
          {DescriptorFile, "prometheus.yml", "alloy.river"}

\* A step that is a drop, of a node template or of anything else.
IsDrop == drop'.n = drop.n + 1

IsNodeDrop == IsDrop /\ "kind" \in DOMAIN drop'.template

IsStackDrop == IsDrop /\ "kind" \notin DOMAIN drop'.template

\* The nodes and the edges a step adds to the graph.
NewNodes == SubSeq(cy'.nodes, Len(cy.nodes) + 1, Len(cy'.nodes))

NewEdges == SubSeq(cy'.edges, Len(cy.edges) + 1, Len(cy'.edges))

\* The elements the graph had are still there, in their places.
KeepsElements ==
    /\ Len(cy'.nodes) >= Len(cy.nodes) /\ Len(cy'.edges) >= Len(cy.edges)
    /\ SubSeq(cy'.nodes, 1, Len(cy.nodes)) = cy.nodes
    /\ SubSeq(cy'.edges, 1, Len(cy.edges)) = cy.edges

NodeIds(g) == {g.nodes[i].id : i \in 1..Len(g.nodes)}

\* The lower-cased name without its characters outside [a-z0-9], stated
\* position by position.
StrippedName(name) ==
    LET low  == toLowerCase(name)
        keep == {i \in 1..Len(low) : low[i] \in AlnumClass}
        pos(k) == CHOOSE i \in keep : Cardinality({j \in keep : j < i}) = k - 1
    IN  [k \in 1..Cardinality(keep) |-> low[pos(k)]]

\* base when the graph has no node base, else base followed by the smallest
\* k >= 1 such that the graph has no node base+k.
ResolvedId(base, ids) ==
    IF base \notin ids THEN base
    ELSE base \o ToDecimal(CHOOSE k \in 1..(Cardinality(ids) + 1) :
                              /\ base \o ToDecimal(k) \notin ids
                              /\ \A j \in 1..(k - 1) : base \o ToDecimal(j) \in ids)

\* C13: the drop of a node template adds one node and nothing else; its id
\* is the lower-cased name without the characters outside [a-z0-9] when the
\* graph has no node with that id, and otherwise that base followed by the
\* smallest k >= 1 that gives an id the graph does not have; the id is not
\* the id of a node the graph had, and a second drop of the same template
\* gives an id that differs from the first and carries a number.
C13_NodeIdResolution ==
    [][IsNodeDrop =>
          LET base == StrippedName(drop'.template.name)
          IN  /\ KeepsElements
              /\ Len(NewNodes) = 1 /\ Len(NewEdges) = 0
              /\ NewNodes[1].id = ResolvedId(base, NodeIds(cy))
              /\ NewNodes[1].id \notin NodeIds(cy)
              /\ (drop.n >= 1 /\ drop.template = drop'.template) =>
                    /\ NewNodes[1].id # cy.nodes[Len(cy.nodes)].id
                    /\ \E k \in 1..(Len(cy.nodes) + 1) :
                          NewNodes[1].id = base \o ToDecimal(k)]_vars

\* C13: "SR Linux" has been dropped on a graph that has the nodes srlinux
\* and srlinux1, and the node added is srlinux2.
C13_Witness ==
    /\ drop.n = 2 /\ drop.template.name = NameSRLinux
    /\ IdSrlinuxNode \in NodeIds(drop.before)
    /\ IdSrlinuxNode \o <<"1">> \in NodeIds(drop.before)
    /\ cy.nodes[Len(cy.nodes)].id = IdSrlinuxNode \o <<"2">>

\* The optional fields of a node template that go into the property bag.
OptionalFields ==
    {"image", "type", "group", "env", "cmd", "exec", "binds", "ports", "labels"}

\* C14: the property bag of the node added for a node template has each of
\* image, type, group, env, cmd, exec, binds, ports and labels exactly when
\* the template has it, with the template's value; it always has the
\* template's kind; and its role is the template's, or the default when the
\* template has none.
C14_PropertyBag ==
    [][IsNodeDrop =>
          LET bag == NewNodes[1].extraData
              template == drop'.template
          IN  /\ \A f \in OptionalFields :
                    /\ f \in DOMAIN bag <=> f \in DOMAIN template
                    /\ f \in DOMAIN template => bag[f] = template[f]
              /\ bag.kind = template.kind
              /\ bag.topoViewerRole =
                    IF "topoViewerRole" \in DOMAIN template
                    THEN template.topoViewerRole ELSE "pe"]_vars

\* The drop of a stack whose topology has a nodes mapping.
IsStackWithNodes ==
    /\ IsStackDrop
    /\ "topology" \in DOMAIN drop'.template
    /\ "nodes" \in DOMAIN drop'.template.topology

\* C15: the drop of a stack adds its entries in the order of topology.nodes,
\* the entry at place i (from 0) at the drop position plus
\* ((i mod 3) * 150, (i div 3) * 150): the first three share their y and
\* their x grows by 150 from one to the next, and the fourth is at the x of
\* the first, one row below.
C15_GridLayout ==
    [][IsStackWithNodes =>
          LET entries == drop'.template.topology.nodes
              base == drop'.position
          IN  /\ Len(NewNodes) = Len(entries)
              /\ \A i \in 0..(Len(entries) - 1) :
                    /\ NewNodes[i + 1].position.x = base.x + (i % 3) * 150
                    /\ NewNodes[i + 1].position.y = base.y + (i \div 3) * 150
              /\ Len(entries) >= 3 =>
                    /\ NewNodes[1].position.y = NewNodes[2].position.y
                    /\ NewNodes[2].position.y = NewNodes[3].position.y
                    /\ NewNodes[2].position.x = NewNodes[1].position.x + 150
                    /\ NewNodes[3].position.x = NewNodes[2].position.x + 150
              /\ Len(entries) >= 4 =>
                    /\ NewNodes[4].position.x = base.x
                    /\ NewNodes[4].position.y = base.y + 150]_vars

\* C15: a stack of four entries has been dropped away from the origin, and
\* its fourth node starts the second row.
C15_Witness ==
    /\ drop.n >= 1 /\ drop.template = StackQuad
    /\ drop.position = [x |-> 40, y |-> 25]
    /\ cy.nodes[Len(cy.nodes)].position = [x |-> 40, y |-> 175]
    /\ cy.nodes[Len(cy.nodes) - 1].position = [x |-> 340, y |-> 25]

\* C16: the drop of the stack with nodes {a, b}, a link c:eth1 <-> b:eth1
\* and a link a:eth1 <-> b:eth1 adds the two nodes and exactly one edge,
\* from the node added for a to the node added for b (whatever ids they
\* were given), with the interface labels eth1 and eth1.
C16_LinkResolution ==
    [][(IsStackDrop /\ drop'.template = StackPair) =>
          /\ KeepsElements
          /\ Len(NewNodes) = 2
          /\ NewNodes[1].id = ResolvedId(KeyA, NodeIds(cy))
          /\ NewNodes[2].id = ResolvedId(KeyB, NodeIds(cy) \cup {NewNodes[1].id})
          /\ Len(NewEdges) = 1
          /\ NewEdges[1].source = NewNodes[1].id
          /\ NewEdges[1].target = NewNodes[2].id
          /\ NewEdges[1].sourceEndpoint = Eth1
          /\ NewEdges[1].targetEndpoint = Eth1]_vars

\* C16: the stack has been dropped on a graph that had a node a, and the
\* edge starts at a1.
C16_Witness ==
    /\ drop.n >= 1 /\ drop.template = StackPair
    /\ KeyA \in NodeIds(drop.before)
    /\ cy.edges[Len(cy.edges)].source = KeyA1
    /\ cy.edges[Len(cy.edges)].target = KeyB

\* The number of colons of an endpoint string.
Colons(e) == Cardinality({i \in 1..Len(e) : e[i] = ":"})

\* A link entry is valid: an object with a list of two endpoint strings, each
\* with one colon, each naming a key of the stack before its colon.
ValidLink(link, keys) ==
    /\ "null" \notin DOMAIN link
    /\ "endpoints" \in DOMAIN link
    /\ Len(link.endpoints) = 2
    /\ \A j \in 1..2 :
          /\ link.endpoints[j] # NotAString
          /\ Colons(link.endpoints[j]) = 1
          /\ NodeKeyOf(link.endpoints[j]) \in keys

\* C17: the drop of a stack with N nodes adds N nodes and one edge for each
\* valid link, in the order of the links, whatever the other entries of
\* links are.
C17_InvalidLinksSkipped ==
    [][(IsStackWithNodes /\ "links" \in DOMAIN drop'.template.topology) =>
          LET topology == drop'.template.topology
              keys  == {topology.nodes[i].key : i \in 1..Len(topology.nodes)}
              valid == SelectSeq(topology.links, LAMBDA l : ValidLink(l, keys))
          IN  /\ Len(NewNodes) = Len(topology.nodes)
              /\ Len(NewEdges) = Len(valid)
              /\ \A i \in 1..Len(valid) :
                    /\ NewEdges[i].source =
                          drop'.createdNodes[NodeKeyOf(valid[i].endpoints[1])]
                    /\ NewEdges[i].target =
                          drop'.createdNodes[NodeKeyOf(valid[i].endpoints[2])]]_vars

\* C18: a link with an endpoint that does not have exactly one colon adds no
\* edge, so the drop of a stack adds as many edges as it has links whose
\* endpoints are well formed, at most, and every edge it adds has both
\* interface labels.
C18_MalformedEndpointsSkipped ==
    [][(IsStackWithNodes /\ "links" \in DOMAIN drop'.template.topology) =>
          LET links == drop'.template.topology.links
              wellFormed(l) ==
                  /\ "null" \notin DOMAIN l /\ "endpoints" \in DOMAIN l
                  /\ \A j \in 1..Len(l.endpoints) :
                        l.endpoints[j] # NotAString /\ Colons(l.endpoints[j]) = 1
          IN  /\ Len(NewEdges) <= Len(SelectSeq(links, wellFormed))
              /\ \A i \in 1..Len(NewEdges) :
                    /\ NewEdges[i].sourceEndpoint # NoValue
                    /\ NewEdges[i].targetEndpoint # NoValue]_vars

\* A descriptor is malformed: it has no kind, and no topology or a topology
\* without a nodes mapping.
Malformed(template) ==
    /\ "kind" \notin DOMAIN template
    /\ \/ "topology" \notin DOMAIN template
       \/ "nodes" \notin DOMAIN template.topology

\* C19: the drop of a malformed descriptor leaves the graph as it was, no
\* node and no edge added; what the instantiation threw was caught by the
\* drop listener, which logs it.
C19_MalformedCaught ==
    [][(IsDrop /\ Malformed(drop'.template)) =>
          /\ cy' = cy
          /\ drop'.caught
          /\ DOMAIN drop'.createdNodes = {}]_vars

\* C19: a stack without topology.nodes has been dropped on a graph that has
\* elements, after a drop that added some.
C19_Witness ==
    /\ drop.n = 2 /\ drop.caught
    /\ "topology" \in DOMAIN drop.template
    /\ "nodes" \notin DOMAIN drop.template.topology
    /\ Len(cy.nodes) > 2 /\ cy = drop.before

\* C20: the drop of a stack gives each entry an id that no node of the graph
\* had and that no other entry of the drop is given; the nodes it adds are
\* the ones with these ids; every edge it adds has its two ends among them;
\* and the elements the graph had are as they were, so that after two drops
\* of a stack no edge joins a node of one drop to a node of the other or to
\* a node that was there before.
C20_PerCallMapping ==
    [][IsStackWithNodes =>
          LET entries == drop'.template.topology.nodes
              created == drop'.createdNodes
              ids == {created[k] : k \in DOMAIN created}
          IN  /\ KeepsElements
              /\ DOMAIN created = {entries[i].key : i \in 1..Len(entries)}
              /\ ids \cap NodeIds(cy) = {}
              /\ \A k1, k2 \in DOMAIN created : created[k1] = created[k2] => k1 = k2
              /\ {NewNodes[i].id : i \in 1..Len(NewNodes)} = ids
              /\ Len(NewNodes) = Cardinality(ids)
              /\ \A i \in 1..Len(NewEdges) :
                    NewEdges[i].source \in ids /\ NewEdges[i].target \in ids]_vars

\* C20: the same stack has been dropped twice on a graph that had a node a:
\* the first drop added a1 and b with an edge between them, the second a2
\* and b1 with an edge between them.
C20_Witness ==
    /\ drop.n = 2 /\ drop.template = StackPair
    /\ KeyA \in NodeIds(drop.before) /\ KeyA1 \in NodeIds(drop.before)
    /\ Len(cy.edges) = 3
    /\ cy.edges[2].source = KeyA1 /\ cy.edges[2].target = KeyB
    /\ cy.edges[3].source = <<"a","2">> /\ cy.edges[3].target = <<"b","1">>

\* C21: after a load every entry of the catalog has kind or has topology; a
\* directory whose descriptor is a mapping with neither is not in the
\* catalog, and none of getTemplates, getNodeTemplates and getStackTemplates
\* returns a descriptor with neither.
C21_ShapesOnly ==
    [][last'.op \in Loads =>
          /\ \A id \in DOMAIN templates' :
                isNodeTemplate(templates'[id]) \/ isStackTemplate(templates'[id])
          /\ \A t \in getTemplates' \cup getNodeTemplates' \cup getStackTemplates' :
                isNodeTemplate(t) \/ isStackTemplate(t)
          /\ \A n \in DOMAIN disk' :
                (/\ disk'[n].isDir /\ loadTemplate(disk', n).ok
                 /\ "kind" \notin DOMAIN loadTemplate(disk', n).t
                 /\ "topology" \notin DOMAIN loadTemplate(disk', n).t) =>
                    n \notin DOMAIN templates']_vars

\* C22: createNodeTemplate with a kind that is empty or missing and
\* createStackTemplate without a topology are rejected and change neither
\* the catalog nor the storage root; the catalog never holds a node
\* template whose kind is empty.
C22_ValidationOnCreate ==
    [][/\ (/\ last'.op = "createNodeTemplate"
           /\ ("kind" \notin DOMAIN last'.arg \/ last'.arg.kind = "")) =>
                (~last'.ok /\ templates' = templates /\ disk' = disk)
       /\ (/\ last'.op = "createStackTemplate"
           /\ "topology" \notin DOMAIN last'.arg) =>
                (~last'.ok /\ templates' = templates /\ disk' = disk)
       /\ \A id \in DOMAIN templates' :
             "kind" \in DOMAIN templates'[id] => templates'[id].kind # ""]_vars

\* C23: a createStackTemplate call writes in the directory of the template
\* it creates and nowhere else: every other entry of the storage root is as
\* it was; a call whose configs have a key that leaves the directory is
\* rejected.
C23_ConfigsStayInside ==
    [][(last'.op = "createStackTemplate" /\ "configs" \in DOMAIN last'.arg) =>
          /\ \A n \in DOMAIN disk \ {last'.id} :
                n \in DOMAIN disk' /\ disk'[n] = disk[n]
          /\ DOMAIN disk' \subseteq DOMAIN disk \cup {last'.id}
          /\ ClimbingKey \in DOMAIN last'.arg.configs => ~last'.ok]_vars

\* C24: an id given by a create or an import is a non-empty string over
\* [a-z0-9-]; deleteTemplate of an id that is in the catalog removes the
\* directory of that id from the storage root and nothing else.
C24_PathSafeSlug ==
    [][/\ (last'.op \in Creates \cup {"importTemplate"} /\ last'.ok) =>
             /\ last'.id # <<>>
             /\ \A i \in 1..Len(last'.id) : last'.id[i] \in AlnumClass \cup {"-"}
       /\ (last'.op = "deleteTemplate" /\ last'.ok /\ last'.id \in DOMAIN templates) =>
             \A n \in DOMAIN disk \ {last'.id} :
                n \in DOMAIN disk' /\ disk'[n] = disk[n]]_vars

\* C25: A startup config is never overwritten.  When createNodeTemplate,
\* createStackTemplate, updateTemplate or importTemplate has saved a node
\* template that names a startup config, the file of that name in the
\* template's directory holds what it held at save time (for an import, what
\* the copy of the source put there) if it existed then, and the placeholder
\* body if it did not.
C25_StartupConfigKept ==
    [][(last'.op \in Creates \cup {"updateTemplate", "importTemplate"} /\ last'.ok
          /\ isNodeTemplate(templates'[last'.id])
          /\ Truthy(templates'[last'.id], "startupConfig")) =>
         LET id     == last'.id
             f      == templates'[id].startupConfig
             before == IF id \in DOMAIN disk THEN disk[id].files ELSE EmptyFn
             atSave == IF last'.op = "importTemplate"
                       THEN CopyOnto(before, FilesAt(ext, last'.path))
                       ELSE before
         IN  /\ f \in DOMAIN disk'[id].files
             /\ disk'[id].files[f] =
                   IF f \in DOMAIN atSave THEN atSave[f]
                   ELSE PlainText(PlaceholderBody)]_vars

\* An imported template whose startup config has a body of its own has been
\* updated, and the body is still there.
C25_Witness ==
    /\ last.op = "updateTemplate" /\ last.ok /\ last.prev = "importTemplate"
    /\ Truthy(templates[last.id], "startupConfig")
    /\ disk[last.id].files[templates[last.id].startupConfig] = PlainText("hostname r1")

\* The calls that save a descriptor.
Saves == Creates \cup {"updateTemplate", "importTemplate"}

\* C26: A failed mutation surfaces and does not touch the catalog.  A call
\* of createNodeTemplate, createStackTemplate, updateTemplate or
\* importTemplate that did not persist its descriptor has failed to its
\* caller with an error (a call that resolved has its descriptor on disk),
\* and after a call that failed the catalog is what it was before the call.
C26_FailedMutation ==
    [][(last'.op \in Saves /\ nops' = nops + 1) =>
          IF last'.ok
          THEN LET t == templates'[last'.id]
               IN  /\ t.id \in DOMAIN disk' /\ disk'[t.id].isDir
                   /\ DescriptorFile \in DOMAIN disk'[t.id].files
                   /\ disk'[t.id].files[DescriptorFile] = stringify(Rest(t, "id"))
          ELSE /\ last'.err.msg # ""
               /\ templates' = templates]_vars

\* A create has failed after its directory was made, on a catalog that holds
\* templates, and its id is not in the catalog.
C26_Witness ==
    /\ last.op \in Creates /\ ~last.ok
    /\ last.err = FsError
    /\ templates # EmptyFn
    /\ last.id \in DOMAIN disk
    /\ last.id \notin DOMAIN templates

\* C27: A failed import leaves the store in its pre-call state.  After a
\* call of importTemplate that failed, the catalog is what it was before the
\* call, and loadTemplates would load from the storage root what it would
\* have loaded before the call.
C27_FailedImport ==
    [][(last'.op = "importTemplate" /\ ~last'.ok /\ nops' = nops + 1) =>
          /\ templates' = templates
          /\ LoadedCatalog(disk') = LoadedCatalog(disk)]_vars

\* C28: The store and the engine are separate.  A drop (addNodeFromTemplate
\* or addStackFromTemplate) changes neither the catalog nor the storage root
\* nor the directories outside it, and every node and edge the graph had is
\* still there unchanged; the drop of a node template with a name adds
\* exactly one node and no edge.  No call of the store (create, update,
\* delete, initialize, refresh, import, export, createDefaultTemplates)
\* changes the graph.
C28_Separation ==
    [][/\ IsDrop =>
            /\ templates' = templates /\ disk' = disk /\ ext' = ext
            /\ KeepsElements
       /\ (IsNodeDrop /\ "name" \in DOMAIN drop'.template) =>
            /\ Len(cy'.nodes) = Len(cy.nodes) + 1
            /\ cy'.edges = cy.edges
       /\ nops' # nops => cy' = cy]_vars

\* A node template has been dropped on a graph that had elements, in a panel
\* whose store holds templates on disk and in the catalog, and a call of the
\* store has been made in the same behaviour.
C28_Witness ==
    /\ drop.n > 0 /\ "kind" \in DOMAIN drop.template
    /\ drop.before.nodes # <<>>
    /\ Len(cy.nodes) = Len(drop.before.nodes) + 1
    /\ nops > 0
    /\ templates # EmptyFn /\ disk # EmptyFn

\* Two calls of which the first was still in flight when the second was made.
Overlap(a, b) == a < b /\ a \notin calls[b].settled

OnlyCreates == \A k \in DOMAIN calls : calls[k].op \in Creates

\* The creates that completed with the id.
CreatedAs(id) == {c \in DOMAIN calls : calls[c].op \in Creates /\ calls[c].ok /\ calls[c].id = id}

\* The creates that have written the directory of the id.
SavedAs(id) ==
    {c \in DOMAIN calls : /\ calls[c].op \in Creates /\ calls[c].id = id
                          /\ calls[c].pc \in {"set", "done"}}

\* C29: Overlapping creates are not arbitrated.  In a behaviour of create
\* calls, two calls whose names have the same slug get distinct ids when the
\* second is made after the first has completed successfully, so that two
\* such calls with the same id have overlapped; and under an id several
\* calls completed with, the catalog holds the descriptor of one of them and
\* the directory of that id the descriptor file one of them wrote.
C29_OverlappingCreates ==
    OnlyCreates =>
        /\ \A a, b \in DOMAIN calls :
              (a < b /\ SlugOf(calls[a].arg.name) = SlugOf(calls[b].arg.name)) =>
                  /\ (a \in calls[b].settled /\ calls[a].ok) => calls[b].id # calls[a].id
                  /\ (calls[a].ok /\ calls[b].ok /\ calls[a].id = calls[b].id) =>
                        Overlap(a, b)
        /\ \A a \in DOMAIN calls :
              calls[a].ok =>
                  LET id == calls[a].id
                  IN  /\ templates[id] \in {calls[c].template : c \in CreatedAs(id)}
                      /\ disk[id].files[DescriptorFile] \in
                            {stringify(Rest(calls[c].template, "id")) : c \in SavedAs(id)}

\* Two creates with different descriptors and the same slug have overlapped
\* and completed with the same id; the catalog holds one descriptor under it,
\* and the same two made one after the other exist with distinct ids.
C29_Witness ==
    /\ OnlyCreates
    /\ \E a, b \in Settled :
          /\ Overlap(a, b)
          /\ calls[a].ok /\ calls[b].ok
          /\ calls[a].id = calls[b].id
          /\ calls[a].arg # calls[b].arg
          /\ DOMAIN templates = {calls[a].id}
          /\ templates[calls[a].id] \in {calls[a].template, calls[b].template}

OnlyLoadsAndDeletes ==
    \A k \in DOMAIN calls : calls[k].op \in {"refresh", "deleteTemplate"}

\* The load L read the descriptor of the id of the delete D before D removed
\* the directory, and inserted the entry after D had completed.
Raced(L, D) ==
    /\ calls[L].op = "refresh" /\ calls[D].op = "deleteTemplate"
    /\ L \in calls[D].readers
    /\ D \in calls[L].late
    /\ Overlap(L, D) \/ Overlap(D, L)

\* C30: A delete racing a load is not arbitrated.  In a behaviour of
\* refresh and deleteTemplate calls that have all completed, the catalog
\* holds an id whose directory is not in the storage root only when a
\* deleteTemplate of that id overlapped a load that read the descriptor
\* before the removal and inserted the entry after the delete had removed it
\* from the map.
C30_DeleteRacingLoad ==
    (OnlyLoadsAndDeletes /\ Pending = {}) =>
        \A id \in DOMAIN templates :
            id \notin DOMAIN disk =>
                \E L, D \in DOMAIN calls : calls[D].id = id /\ Raced(L, D)

\* A load and a delete have both completed successfully, and the catalog
\* holds the id whose directory the delete removed.
C30_Witness ==
    /\ Pending = {}
    /\ \E L, D \in DOMAIN calls :
          /\ Raced(L, D)
          /\ calls[L].ok /\ calls[D].ok
          /\ calls[D].id \in DOMAIN templates
          /\ calls[D].id \notin DOMAIN disk

\* C31: Create never reuses a storage unit that exists on disk.  When the
\* catalog holds what loadTemplates loads from the storage root (a directory
\* with a corrupt descriptor is on disk and not in the catalog), a call of
\* createNodeTemplate, createStackTemplate or importTemplate that resolves
\* has written into a directory that did not exist before the call, and
\* every entry the storage root had is as it was.
C31_FreshStorageUnit ==
    [][(/\ last'.op \in Creates \cup {"importTemplate"}
        /\ nops' = nops + 1
        /\ last'.ok
        /\ templates = LoadedCatalog(disk)) =>
          /\ last'.id \notin DOMAIN disk
          /\ \A n \in DOMAIN disk : n \in DOMAIN disk' /\ disk'[n] = disk[n]]_vars

\* C32: Seeding never touches a non-empty store under interleaving.  A call
\* of createDefaultTemplates made, with refresh calls in flight or not, when
\* the storage root held a loadable template creates no built-in entry, and
\* no step of it changes the storage root.
C32_SeedingUnderInterleaving ==
    [][\A k \in DOMAIN calls' :
          (calls'[k].op = "createDefaultTemplates" /\ calls'[k].stored # {}) =>
              /\ calls'[k].index = 0
              /\ k \in DOMAIN calls /\ calls[k].pc = "save" => disk' = disk]_vars

\* C33: Durable round trip.  When refresh() follows a createNodeTemplate or
\* createStackTemplate that resolved, getTemplate of the id the create
\* returned gives a descriptor with the fields and values of the one the
\* create returned; before the refresh the descriptor file of that id holds
\* the descriptor without id.
C33_DurableRoundTrip ==
    [][(/\ last'.op = "refresh" /\ nops' = nops + 1
        /\ last.op \in Creates /\ last.ok) =>
          /\ disk[last.id].files[DescriptorFile] = stringify(Rest(last.ret, "id"))
          /\ last.id \in DOMAIN templates'
          /\ Defined(templates'[last.id]) = Defined(last.ret)]_vars

\* C34: Edge ids are unique.  No two edges of the graph have the same id, and
\* no edge has the id of a node.
C34_EdgeIdsUnique ==
    /\ \A i, j \in 1..Len(cy.edges) : i # j => cy.edges[i].id # cy.edges[j].id
    /\ \A i \in 1..Len(cy.edges) : cy.edges[i].id \notin NodeIds(cy)

\* The word of the tag the claim C35 is about.
Latest == <<"l","a","t","e","s","t">>

\* The repository includes a pattern of the entry k of knownImages.
RepositoryOfKind(image, k) ==
    \E p \in 1..Len(knownImages[k].patterns) :
        includes(toLowerCase(image.repository), toLowerCase(knownImages[k].patterns[p]))

\* C35: Images tagged latest are kept.  When docker has listed the images,
\* every listed image whose tag is 'latest' and whose repository matches a
\* pattern of a known kind, no exclude word being its repository, is in the
\* image cache afterwards, under the first kind one of whose patterns its
\* name matches.
C35_LatestKept ==
    (docker.out.invoked /\ ~docker.out.failed) =>
        \A i \in 1..Len(docker.out.listed) :
            LET image == docker.out.listed[i]
                kinds == {k \in 1..Len(knownImages) : MatchesKind(fullName(image), k)}
            IN  (/\ image.tag = Latest
                 /\ \E k \in 1..Len(knownImages) : RepositoryOfKind(image, k)
                 /\ \A e \in 1..Len(excludePatterns) :
                        excludePatterns[e] # toLowerCase(image.repository)) =>
                    \E j \in 1..Len(docker.images) :
                        /\ docker.images[j].repository = image.repository
                        /\ docker.images[j].tag = image.tag
                        /\ \E k \in kinds :
                              /\ docker.images[j].kind = knownImages[k].kind
                              /\ \A m \in kinds : k <= m

\* A step that is a call of getImages, made by the caller or by getChildren.
CallsGetImages == docker'.n = docker.n + 1 /\ docker'.op # "setFilter"

\* An unforced call finds a cache that is not empty and was refreshed less
\* than the refresh interval ago.
FreshCache ==
    /\ ~docker'.out.forceRefresh
    /\ Len(docker.images) > 0
    /\ docker'.now - docker.lastRefresh < refreshInterval

\* What C36 says of every call of getImages but of the call after a failure:
\* the call returns the cache; a failed listing leaves cache and lastRefresh
\* as they were; an unforced call on a fresh cache returns it and does not
\* invoke docker; a forced call invokes docker.
CacheRules ==
    /\ docker'.out.ret = docker'.images
    /\ docker'.out.failed =>
          /\ docker'.images = docker.images
          /\ docker'.lastRefresh = docker.lastRefresh
    /\ FreshCache => ~docker'.out.invoked /\ docker'.images = docker.images
    /\ docker'.out.forceRefresh => docker'.out.invoked

\* C36 as stated: Image cache under failure.  getImages returns to its
\* caller; a failed listing returns the cached list and does not advance
\* lastRefresh, and the call of getImages after a failed one invokes docker
\* again; an unforced call on a fresh non-empty cache returns it without
\* invoking docker, and getImages(true) always invokes docker.
C36_RetryAfterFailure ==
    [][CallsGetImages =>
          /\ CacheRules
          /\ docker.out.failed => docker'.out.invoked]_vars

\* C36: Image cache under failure, as amended.  As above, but the call of
\* getImages after a failed one invokes docker again unless it is unforced
\* and finds a non-empty cache refreshed less than the refresh interval ago.
C36_ImageCacheUnderFailure ==
    [][CallsGetImages =>
          /\ CacheRules
          /\ (docker.out.failed /\ ~FreshCache) => docker'.out.invoked]_vars

\* A listing has failed with images in the cache: the call has returned them
\* and left lastRefresh where it was.
C36_Witness ==
    /\ docker.out.failed
    /\ Len(docker.out.ret) > 0
    /\ docker.out.ret = docker.out.before
    /\ docker.lastRefresh = docker.out.lastBefore

\* C37: Image tree consistency.  When getChildren has returned the children
\* of a kind category for the images and the filter text the root level was
\* built from, the category is one the root shows, the count and the label
\* the root shows for it are those of the number of its children, and it has
\* a child.
C37_TreeConsistency ==
    (/\ docker.op = "getChildrenKind"
     /\ docker.images = docker.shown.images
     /\ docker.filterText = docker.shown.filterText) =>
        /\ Len(docker.opened.items) > 0
        /\ \E e \in 1..Len(docker.shown.items) :
              /\ docker.shown.items[e].kind = docker.opened.kind
              /\ docker.shown.items[e].count = Len(docker.opened.items)
              /\ docker.shown.items[e].label =
                    KindLabel(docker.opened.kind, Len(docker.opened.items))

====
